---- MODULE Spec2Model ----
(***************************************************************************)
(* State-machine model of the No-Limit Hold'em rules engine (GameState)    *)
(* of the GTO solver: construction (antes, blinds, first actor),           *)
(* apply_action with its betting-round closure, street advance and         *)
(* terminal detection, and the fold settlement of the CFR engine.          *)
(***************************************************************************)
EXTENDS Integers, Sequences, FiniteSets, TLC

VARIABLES
    num_players,                 \* GameState::num_players_
    initial_stack,               \* constructor argument initial_stack
    ante_size,                   \* GameState::ante_size_
    button_position,             \* GameState::button_position_
    current_player_index,        \* GameState::current_player_index_
    pot_size,                    \* GameState::pot_size_
    player_stacks,               \* GameState::player_stacks_
    bets_this_round,             \* GameState::bets_this_round_
    current_street,              \* GameState::current_street_
    is_game_over,                \* GameState::is_game_over_
    last_raise_size,             \* GameState::last_raise_size_
    aggressor_this_round,        \* GameState::aggressor_this_round_
    actions_this_round,          \* GameState::actions_this_round_
    player_folded,               \* GameState::player_folded_
    player_all_in,               \* GameState::player_all_in_
    player_contributions,        \* GameState::player_contributions_
    player_acted_this_sequence,  \* GameState::player_acted_this_sequence_
    raise_count,                 \* BET/RAISE entries of GameState::action_history_
    limp_calls,                  \* preflop CALL entries of seats other than the big blind before the first RAISE entry
    voluntary_action_taken,      \* a preflop CALL or RAISE entry is in action_history_
    raise_occurred,              \* a preflop RAISE entry is in action_history_
    outcome,                     \* how the last call ended: constructed / ok / threw / ignored
    current_state,               \* the GameState of a CFR traversal, with its whole action_history_
    info_set,                    \* an InfoSet object
    regrets,                     \* the regret vector last given to get_strategy_from_regrets
    strategy,                    \* the strategy it returned
    node_map,                    \* CFREngine::node_map_
    total_nodes_created,         \* CFREngine::total_nodes_created_
    completed_iterations,        \* CFREngine::completed_iterations_
    files,                       \* the checkpoint files on disk, by name
    train_call,                  \* the call of CFREngine::train: its arguments and where it stands
    workers,                     \* the threads of worker_task, by thread_id
    traversals,                  \* the calls of cfr_plus_recursive a thread is in, by thread_id
    node_map_mutex               \* CFREngine::node_map_mutex_: the thread that holds it

\* The members of the GameState object, and everything.
game_vars == <<num_players, initial_stack, ante_size, button_position,
               current_player_index, pot_size, player_stacks, bets_this_round,
               current_street, is_game_over, last_raise_size,
               aggressor_this_round, actions_this_round, player_folded,
               player_all_in, player_contributions, player_acted_this_sequence,
               raise_count, limp_calls, voluntary_action_taken, raise_occurred,
               outcome>>

\* The variables of the solver's side.
helper_vars == <<regrets, strategy>>
traversal_vars == <<traversals, node_map_mutex>>
engine_vars == <<node_map, total_nodes_created, completed_iterations, files,
                 train_call, workers, traversal_vars>>
solver_vars == <<helper_vars, engine_vars>>

vars == <<game_vars, current_state, info_set, solver_vars>>

----------------------------------------------------------------------------
(* Bounds of the exploration *)

MaxPlayers == 3
MaxStack == 3
MaxAnte == 1
MaxAmount == 4
MaxSeats == 6
MaxHistory == 4
MaxRanks == 2
MaxActions == 3
MaxRegret == 2

(* Program constants *)

SMALL_BLIND_AMOUNT == 1
BIG_BLIND_AMOUNT == 2

PREFLOP == 0
FLOP == 1
TURN == 2
RIVER == 3
SHOWDOWN == 4

(* The stack of the repository's tests (GameState(2, 100, 0, 0)) and the
   raise totals they apply. *)
TestStack == 100
TestRaiseTotals == {6, 8}

----------------------------------------------------------------------------
(* Helpers *)

Min(a, b) == IF a < b THEN a ELSE b
Max(a, b) == IF a > b THEN a ELSE b

Seats(n) == 0 .. (n - 1)

RECURSIVE SumTo(_, _)
SumTo(f, n) == IF n = 0 THEN 0 ELSE f[n - 1] + SumTo(f, n - 1)

\* for (int bet : bets_this_round_) max_bet = std::max(max_bet, bet);
RECURSIVE MaxTo(_, _)
MaxTo(f, n) == IF n = 0 THEN 0 ELSE Max(f[n - 1], MaxTo(f, n - 1))

MaxBet(s) == MaxTo(s.bets_this_round, s.num_players)

\* The first seat, scanning start, start+1, ... (mod n), that is in ok;
\* -1 when the scan wraps without finding one.
FirstSeatFrom(n, start, ok) ==
    LET offs == {k \in 0 .. (n - 1) : (start + k) % n \in ok}
    IN  IF offs = {} THEN -1
        ELSE (start + (CHOOSE k \in offs : \A j \in offs : k <= j)) % n

----------------------------------------------------------------------------
(* The GameState object as one record; State is its current value. *)

State ==
    [num_players |-> num_players,
     ante_size |-> ante_size,
     button_position |-> button_position,
     current_player_index |-> current_player_index,
     pot_size |-> pot_size,
     player_stacks |-> player_stacks,
     bets_this_round |-> bets_this_round,
     current_street |-> current_street,
     raise_count |-> raise_count,
     limp_calls |-> limp_calls,
     voluntary_action_taken |-> voluntary_action_taken,
     raise_occurred |-> raise_occurred,
     is_game_over |-> is_game_over,
     last_raise_size |-> last_raise_size,
     aggressor_this_round |-> aggressor_this_round,
     actions_this_round |-> actions_this_round,
     player_folded |-> player_folded,
     player_all_in |-> player_all_in,
     player_contributions |-> player_contributions,
     player_acted_this_sequence |-> player_acted_this_sequence]

\* Commit that forgets to add the chips to pot_size_.
CommitNoPot(s, p, chips) ==
    [s EXCEPT !.player_stacks[p] = @ - chips,
              !.bets_this_round[p] = @ + chips,
              !.player_contributions[p] = @ + chips,
              !.player_all_in[p] = (@ \/ s.player_stacks[p] - chips = 0)]

\* Chips moved from a stack into the pot: the four updates every posting,
\* call, bet and raise makes, and the all-in flag when the stack is empty.
Commit(s, p, chips) ==
    [s EXCEPT !.player_stacks[p] = @ - chips,
              !.bets_this_round[p] = @ + chips,
              !.player_contributions[p] = @ + chips,
              !.pot_size = @ + chips,
              !.player_all_in[p] = (@ \/ s.player_stacks[p] - chips = 0)]

----------------------------------------------------------------------------
(* Construction *)

SbIndex(n, button) == IF n = 2 THEN button ELSE (button + 1) % n
BbIndex(n, button) == IF n = 2 THEN (button + 1) % n ELSE (button + 2) % n

\* Antes: every seat pays min(ante, stack); antes enter the pot and the
\* contribution but not bets_this_round_.
PostAntes(s) ==
    IF s.ante_size > 0
    THEN LET ante == [i \in Seats(s.num_players) |-> Min(s.ante_size, s.player_stacks[i])]
         IN  [s EXCEPT
                !.player_stacks = [i \in Seats(s.num_players) |-> s.player_stacks[i] - ante[i]],
                !.player_contributions = [i \in Seats(s.num_players) |-> s.player_contributions[i] + ante[i]],
                !.pot_size = s.pot_size + SumTo(ante, s.num_players),
                !.player_all_in = [i \in Seats(s.num_players) |->
                                     s.player_all_in[i] \/ s.player_stacks[i] - ante[i] = 0]]
    ELSE s

\* A blind: bets_this_round_ is assigned (not incremented) the posted chips.
PostBlind(s, p, amount) ==
    LET post == Min(amount, s.player_stacks[p])
    IN  Commit([s EXCEPT !.bets_this_round[p] = 0], p, post)

InitialLastRaiseSize(sb_amount, bb_amount) == Max(bb_amount - sb_amount, bb_amount)

post_antes_and_blinds(s, sb_index, bb_index, sb_amount, bb_amount) ==
    LET s1 == PostAntes(s)
        s2 == PostBlind(s1, sb_index, sb_amount)
        s3 == PostBlind(s2, bb_index, bb_amount)
    IN  [s3 EXCEPT
           !.last_raise_size = InitialLastRaiseSize(sb_amount, bb_amount),
           !.aggressor_this_round = bb_index,
           !.actions_this_round = 0,
           !.player_acted_this_sequence = [i \in Seats(s.num_players) |-> FALSE]]

\* The small blind opening the betting at every table size.
FirstToActPreflopSb(n, button) == SbIndex(n, button)

\* The seat that opens the preflop betting before all-in seats are skipped.
FirstToActPreflop(n, button) ==
    IF n = 2 THEN SbIndex(n, button) ELSE (BbIndex(n, button) + 1) % n

GameState(n, stack, ante, button) ==
    LET s0 == [num_players |-> n,
               ante_size |-> ante,
               button_position |-> button,
               current_player_index |-> -1,
               pot_size |-> 0,
               player_stacks |-> [i \in Seats(n) |-> stack],
               bets_this_round |-> [i \in Seats(n) |-> 0],
               current_street |-> PREFLOP,
               raise_count |-> 0,
               limp_calls |-> 0,
               voluntary_action_taken |-> FALSE,
               raise_occurred |-> FALSE,
               is_game_over |-> FALSE,
               last_raise_size |-> 0,
               aggressor_this_round |-> -1,
               actions_this_round |-> 0,
               player_folded |-> [i \in Seats(n) |-> FALSE],
               player_all_in |-> [i \in Seats(n) |-> FALSE],
               player_contributions |-> [i \in Seats(n) |-> 0],
               player_acted_this_sequence |-> [i \in Seats(n) |-> FALSE]]
        s1 == post_antes_and_blinds(s0, SbIndex(n, button), BbIndex(n, button),
                                    SMALL_BLIND_AMOUNT, BIG_BLIND_AMOUNT)
        CanAct == {i \in Seats(n) : ~s1.player_all_in[i] /\ ~s1.player_folded[i]}
        first == FirstSeatFrom(n, FirstToActPreflop(n, button), CanAct)
    IN  [s1 EXCEPT !.current_player_index = first,
                   !.is_game_over = (first = -1)]

----------------------------------------------------------------------------
(* Getters *)

get_amount_to_call(s, player_index) ==
    IF \/ player_index < 0
       \/ player_index >= s.num_players
    THEN 0
    ELSE IF s.player_folded[player_index] \/ s.player_all_in[player_index]
    THEN 0
    ELSE Min(MaxBet(s) - s.bets_this_round[player_index], s.player_stacks[player_index])

ActivePlayers(s) == {i \in Seats(s.num_players) : ~s.player_folded[i]}

\* The betting_over flag is_terminal() computes for its river test.
BettingOver(s) ==
    IF s.actions_this_round > 0 /\ s.aggressor_this_round # -1
    THEN ~\E i \in Seats(s.num_players) :
            /\ ~s.player_folded[i]
            /\ ~(s.player_all_in[i] /\ i # s.aggressor_this_round)
            /\ \/ s.bets_this_round[i] < s.bets_this_round[s.aggressor_this_round]
               \/ ~s.player_acted_this_sequence[i]
    ELSE IF s.actions_this_round > 0 /\ s.aggressor_this_round = -1
    THEN ~\E i \in Seats(s.num_players) :
            ~s.player_folded[i] /\ ~s.player_all_in[i] /\ ~s.player_acted_this_sequence[i]
    ELSE FALSE

is_terminal(s) ==
    \/ s.is_game_over
    \/ Cardinality(ActivePlayers(s)) <= 1
    \/ s.current_street = SHOWDOWN
    \/ (BettingOver(s) /\ s.current_street = RIVER)

----------------------------------------------------------------------------
(* Modifiers *)

\* A street reset that leaves the bets of the closed round in place.
ResetKeepsBets(s) ==
    [s EXCEPT !.last_raise_size = 0,
              !.aggressor_this_round = -1,
              !.actions_this_round = 0,
              !.player_acted_this_sequence = [i \in Seats(s.num_players) |-> FALSE]]

reset_bets_for_new_street(s) ==
    [s EXCEPT !.bets_this_round = [i \in Seats(s.num_players) |-> 0],
              !.last_raise_size = 0,
              !.aggressor_this_round = -1,
              !.actions_this_round = 0,
              !.player_acted_this_sequence = [i \in Seats(s.num_players) |-> FALSE]]

\* The seat the scan for the first postflop actor starts at.
FirstToActPostflop(n, button) == (button + 1) % n

\* What advance_to_next_street leaves when its scan wraps around (every
\* unfolded seat is all-in): terminal on the river only, otherwise the scan's
\* start seat stays in current_player_index_ and the game is not over.
AllInWrap(s, start) ==
    IF s.current_street = RIVER
    THEN [s EXCEPT !.current_street = SHOWDOWN,
                   !.is_game_over = TRUE,
                   !.current_player_index = -1]
    ELSE [s EXCEPT !.current_player_index = start]

advance_to_next_street(s) ==
    IF s.current_street = RIVER \/ s.current_street = SHOWDOWN
    THEN [s EXCEPT !.current_street = SHOWDOWN,
                   !.is_game_over = TRUE,
                   !.current_player_index = -1]
    ELSE LET s1 == [reset_bets_for_new_street(s) EXCEPT !.current_street = @ + 1]
             start == FirstToActPostflop(s.num_players, s.button_position)
             CanAct == {i \in Seats(s.num_players) :
                           ~s1.player_folded[i] /\ ~s1.player_all_in[i]}
             first == FirstSeatFrom(s.num_players, start, CanAct)
         IN  IF first # -1
             THEN [s1 EXCEPT !.current_player_index = first]
             ELSE AllInWrap(s1, start)

\* needs_to_act that looks at the bets only and forgets the acted flags.
NeedsToActBetsOnly(s, i) == s.bets_this_round[i] < MaxBet(s)

\* needs_to_act of update_next_player, for a seat that is neither folded nor
\* all-in.
NeedsToAct(s, i) ==
    IF s.aggressor_this_round # -1
    THEN ~s.player_acted_this_sequence[i] \/ s.bets_this_round[i] < MaxBet(s)
    ELSE ~s.player_acted_this_sequence[i]

update_next_player(s) ==
    IF s.is_game_over
    THEN [s EXCEPT !.current_player_index = -1]
    ELSE IF Cardinality(ActivePlayers(s)) <= 1
    THEN [s EXCEPT !.is_game_over = TRUE,
                   !.current_player_index = -1,
                   !.current_street = IF @ = RIVER THEN SHOWDOWN ELSE @]
    ELSE LET Eligible == {i \in Seats(s.num_players) :
                             /\ ~s.player_folded[i]
                             /\ ~s.player_all_in[i]
                             /\ NeedsToAct(s, i)}
         IN  [s EXCEPT !.current_player_index =
                 FirstSeatFrom(s.num_players,
                               (s.current_player_index + 1) % s.num_players, Eligible)]

\* The second betting_over test apply_action makes on the river before it
\* moves the street to SHOWDOWN.
RiverBettingOver(s) ==
    LET active_players == Cardinality(ActivePlayers(s))
        players_all_in_or_folded ==
            Cardinality({i \in Seats(s.num_players) :
                            \/ s.player_folded[i]
                            \/ s.player_all_in[i]
                            \/ s.bets_this_round[i] = MaxBet(s)})
    IN  active_players <= 1 \/ active_players = players_all_in_or_folded

\* A tail of apply_action that rewinds the street when the hand ends.
FinishActionRewinds(s) ==
    IF is_terminal(s)
    THEN [s EXCEPT !.is_game_over = TRUE, !.current_player_index = -1,
                   !.current_street = PREFLOP]
    ELSE LET s1 == update_next_player(s)
         IN  IF s1.current_player_index = -1
             THEN advance_to_next_street(s1)
             ELSE s1

\* The tail of apply_action: terminal test, next player, street advance.
FinishAction(s) ==
    IF is_terminal(s)
    THEN LET s1 == [s EXCEPT !.is_game_over = TRUE, !.current_player_index = -1]
         IN  IF s.current_street = RIVER /\ RiverBettingOver(s)
             THEN [s1 EXCEPT !.current_street = SHOWDOWN]
             ELSE s1
    ELSE LET s1 == update_next_player(s)
         IN  IF s1.current_player_index = -1
             THEN advance_to_next_street(s1)
             ELSE s1

\* The aggressor a CALL recomputes when a check had cleared it: the lowest
\* seat holding the largest positive bet, or -1.
FindAggressor(s) ==
    IF MaxBet(s) = 0 THEN -1
    ELSE CHOOSE i \in Seats(s.num_players) :
            /\ s.bets_this_round[i] = MaxBet(s)
            /\ \A j \in Seats(s.num_players) : s.bets_this_round[j] = MaxBet(s) => i <= j

\* min_increment without the big-blind floor for a street nobody has bet on.
MinIncrementNoFloor(s) == s.last_raise_size

\* min_increment of the min-raise check.
MinIncrement(s) == IF s.last_raise_size > 0 THEN s.last_raise_size ELSE BIG_BLIND_AMOUNT

\* The chips of a BET/RAISE without the clamp to the stack.
AdditionalAmountUnclamped(s, action) ==
    action.amount - s.bets_this_round[action.player_index]

\* The chips a BET/RAISE to action.amount adds, clamped to the stack.
AdditionalAmount(s, action) ==
    Min(action.amount - s.bets_this_round[action.player_index],
        s.player_stacks[action.player_index])

\* raise_increment: the clamped total minus (current bet + amount to call).
RaiseIncrement(s, action) ==
    LET p == action.player_index
    IN  (s.bets_this_round[p] + AdditionalAmount(s, action))
           - (s.bets_this_round[p] + get_amount_to_call(s, p))

IsAllInCommit(s, action) ==
    AdditionalAmount(s, action) = s.player_stacks[action.player_index]

\* The three throws of the BET/RAISE case.
BetRaiseThrows(s, action) ==
    \/ action.type = "BET" /\ get_amount_to_call(s, action.player_index) > 0
    \/ action.amount - s.bets_this_round[action.player_index] <= 0
    \/ ~IsAllInCommit(s, action) /\ RaiseIncrement(s, action) < MinIncrement(s)

ApplyBetRaise(s, action) ==
    LET p == action.player_index
        s1 == Commit(s, p, AdditionalAmount(s, action))
    IN  [s1 EXCEPT !.last_raise_size = RaiseIncrement(s, action),
                   !.aggressor_this_round = p,
                   !.actions_this_round = 1,
                   !.player_acted_this_sequence =
                       [i \in Seats(s.num_players) |-> i = p]]

\* A CALL whose chips leave the stack without reaching pot_size_.
ApplyCallOutsidePot(s, p) ==
    LET call_amount == get_amount_to_call(s, p)
        s1 == IF call_amount > 0
              THEN CommitNoPot(s, p, Min(call_amount, s.player_stacks[p]))
              ELSE s
    IN  IF s1.aggressor_this_round = -1
        THEN [s1 EXCEPT !.aggressor_this_round = FindAggressor(s1)]
        ELSE s1

ApplyCall(s, p) ==
    LET call_amount == get_amount_to_call(s, p)
        s1 == IF call_amount > 0
              THEN Commit(s, p, Min(call_amount, s.player_stacks[p]))
              ELSE s
    IN  IF s1.aggressor_this_round = -1
        THEN [s1 EXCEPT !.aggressor_this_round = FindAggressor(s1)]
        ELSE s1

\* The bookkeeping apply_action does before it looks at the action type.
\* Nothing in the rules reads action_history_ back; of the pushed entry the
\* model keeps what the getters read: the count of BET/RAISE entries
\* (get_raises_this_street) and, for the entries pushed on the preflop
\* street, the only ones get_raises_this_street, is_first_to_act_preflop and
\* get_num_limpers look at before the street moves on, whether a CALL or
\* RAISE is among them, whether a RAISE is, and the calls of seats other than
\* the big blind ahead of the first RAISE.
RecordAction(s, action) ==
    [s EXCEPT !.raise_count = IF action.type \in {"BET", "RAISE"} THEN @ + 1 ELSE @,
              !.limp_calls =
                  IF /\ s.current_street = PREFLOP
                     /\ ~s.raise_occurred
                     /\ action.type = "CALL"
                     /\ action.player_index # BbIndex(s.num_players, s.button_position)
                  THEN @ + 1 ELSE @,
              !.voluntary_action_taken =
                  @ \/ (s.current_street = PREFLOP /\ action.type \in {"CALL", "RAISE"}),
              !.raise_occurred =
                  @ \/ (s.current_street = PREFLOP /\ action.type = "RAISE"),
              !.player_acted_this_sequence[action.player_index] = TRUE,
              !.actions_this_round = @ + 1]

\* apply_action: the resulting object and how the call ended.
apply_action(s, action) ==
    IF s.is_game_over
    THEN [state |-> s, outcome |-> "ignored"]
    ELSE IF action.player_index # s.current_player_index
    THEN [state |-> s, outcome |-> "threw"]
    ELSE LET p == action.player_index
             s1 == RecordAction(s, action)
         IN  CASE action.type = "FOLD" ->
                    [state |-> FinishAction([s1 EXCEPT !.player_folded[p] = TRUE]),
                     outcome |-> "ok"]
               [] action.type = "CHECK" ->
                    IF get_amount_to_call(s1, p) > 0
                    THEN [state |-> s1, outcome |-> "threw"]
                    ELSE [state |-> FinishAction([s1 EXCEPT !.aggressor_this_round = -1]),
                          outcome |-> "ok"]
               [] action.type = "CALL" ->
                    [state |-> FinishAction(ApplyCall(s1, p)), outcome |-> "ok"]
               [] action.type \in {"BET", "RAISE"} ->
                    IF BetRaiseThrows(s1, action)
                    THEN [state |-> s1, outcome |-> "threw"]
                    ELSE [state |-> FinishAction(ApplyBetRaise(s1, action)),
                          outcome |-> "ok"]

----------------------------------------------------------------------------
(* Text.  A std::string is a sequence of one-character strings, so that two
   strings are equal exactly when they hold the same characters. *)

Digits == <<"0", "1", "2", "3", "4", "5", "6", "7", "8", "9">>

\* std::to_string(int), and operator<< of an int.
RECURSIVE to_string(_)
to_string(n) ==
    IF n < 0 THEN <<"-">> \o to_string(-n)
    ELSE IF n < 10 THEN <<Digits[n + 1]>>
    ELSE to_string(n \div 10) \o <<Digits[(n % 10) + 1]>>

\* The character codes that order the characters of cards and keys.
CharCode ==
    ("-" :> 45 @@ "0" :> 48 @@ "1" :> 49 @@ "2" :> 50 @@ "3" :> 51 @@ "4" :> 52
       @@ "5" :> 53 @@ "6" :> 54 @@ "7" :> 55 @@ "8" :> 56 @@ "9" :> 57
       @@ ":" :> 58 @@ "A" :> 65 @@ "J" :> 74 @@ "K" :> 75 @@ "P" :> 80
       @@ "Q" :> 81 @@ "T" :> 84 @@ "_" :> 95 @@ "b" :> 98 @@ "c" :> 99
       @@ "d" :> 100 @@ "f" :> 102 @@ "h" :> 104 @@ "k" :> 107 @@ "r" :> 114
       @@ "s" :> 115 @@ "|" :> 124)

----------------------------------------------------------------------------
(* GameState::get_history_string over the whole action_history_ *)

\* The token of one entry of action_history_.
ActionToken(action) ==
    CASE action.type = "FOLD" -> <<"f">>
      [] action.type = "CHECK" -> <<"k">>
      [] action.type = "CALL" -> <<"c">>
      [] action.type = "BET" -> <<"b">> \o to_string(action.amount)
      [] action.type = "RAISE" -> <<"r">> \o to_string(action.amount)

\* The loop: every entry's token followed by the separator.
RECURSIVE HistoryLoop(_)
HistoryLoop(history) ==
    IF history = <<>> THEN <<>>
    ELSE HistoryLoop(SubSeq(history, 1, Len(history) - 1))
            \o ActionToken(history[Len(history)]) \o <<"_">>

get_history_string(history) ==
    LET text == HistoryLoop(history)
    IN  IF text # <<>> THEN SubSeq(text, 1, Len(text) - 1) ELSE text

----------------------------------------------------------------------------
(* InfoSet: its key and its constructors *)

\* A Card is a two-character string, rank then suit; std::sort orders cards
\* as strings.
CardLess(a, b) ==
    \/ CharCode[a[1]] < CharCode[b[1]]
    \/ a[1] = b[1] /\ CharCode[a[2]] < CharCode[b[2]]

\* One card put at its place in a sorted sequence.
RECURSIVE InsertCard(_, _)
InsertCard(card, sorted) ==
    IF sorted = <<>> THEN <<card>>
    ELSE IF CardLess(card, Head(sorted)) THEN <<card>> \o sorted
    ELSE <<Head(sorted)>> \o InsertCard(card, Tail(sorted))

RECURSIVE SortCards(_)
SortCards(cards) ==
    IF cards = <<>> THEN <<>>
    ELSE InsertCard(Head(cards), SortCards(Tail(cards)))

RECURSIVE CardsText(_)
CardsText(cards) ==
    IF cards = <<>> THEN <<>> ELSE Head(cards) \o CardsText(Tail(cards))

RECURSIVE Placeholders(_)
Placeholders(k) ==
    IF k <= 0 THEN <<>> ELSE <<"-", "-">> \o Placeholders(k - 1)

generate_key(player_index, private_hand, action_history, street, board) ==
    <<"P">> \o to_string(player_index) \o <<":">>
        \o CardsText(SortCards(private_hand)) \o <<"|">>
        \o to_string(street) \o <<"|">>
        \o to_string(Len(board)) \o CardsText(SortCards(board))
        \o Placeholders(5 - Len(board)) \o <<"|">>
        \o action_history

\* Both constructors: the members, and the key generated from them.  The
\* traversal constructor takes hand, history, street and board from the
\* state; the extraction constructor takes hand and history from the caller
\* and street and board from the context state.
InfoSet(private_hand, action_history, street, board, player_index) ==
    [player_index |-> player_index,
     private_hand |-> private_hand,
     action_history |-> action_history,
     street |-> street,
     board |-> board,
     key |-> generate_key(player_index, private_hand, action_history, street, board)]

set_hand(info, hand) ==
    InfoSet(hand, info.action_history, info.street, info.board, info.player_index)

----------------------------------------------------------------------------
(* main: the key of a raise-first-in spot *)

position_map(n) ==
    IF n = 6 THEN {3, 4, 5, 0, 1} ELSE IF n = 2 THEN {0} ELSE {}

first_actor(n) == IF n = 2 THEN 0 ELSE 3

RECURSIVE PlayersBefore(_, _, _, _)
PlayersBefore(n, player_index, current_p, players_before) ==
    IF current_p = player_index \/ players_before >= n THEN players_before
    ELSE PlayersBefore(n, player_index, (current_p + 1) % n, players_before + 1)

RECURSIVE FoldTokens(_)
FoldTokens(k) == IF k <= 0 THEN <<>> ELSE <<"f", "/">> \o FoldTokens(k - 1)

rfi_history(n, player_index) ==
    <<"s", "/", "b", "/">>
        \o FoldTokens(PlayersBefore(n, player_index, first_actor(n), 0))

----------------------------------------------------------------------------
(* Numbers of the solver.  A double is modelled by the rational it stands
   for, a pair <<numerator, denominator>> in lowest terms with a positive
   denominator, so that equal values are equal pairs. *)

Abs(x) == IF x < 0 THEN -x ELSE x

RECURSIVE Gcd(_, _)
Gcd(a, b) == IF b = 0 THEN a ELSE Gcd(b, a % b)

Rat(n, d) ==
    LET g == Gcd(Abs(n), Abs(d))
        sign == IF d < 0 THEN -1 ELSE 1
    IN  <<(sign * n) \div g, (sign * d) \div g>>

Zero == Rat(0, 1)
One == Rat(1, 1)

\* Sums over the least common denominator and products reduced crosswise,
\* which keeps the intermediate integers small.
RatAdd(a, b) ==
    LET g == Gcd(a[2], b[2])
    IN  Rat(a[1] * (b[2] \div g) + b[1] * (a[2] \div g), (a[2] \div g) * b[2])
RatSub(a, b) ==
    LET g == Gcd(a[2], b[2])
    IN  Rat(a[1] * (b[2] \div g) - b[1] * (a[2] \div g), (a[2] \div g) * b[2])
RatMul(a, b) ==
    LET g == Gcd(Abs(a[1]), b[2])
        h == Gcd(Abs(b[1]), a[2])
    IN  Rat((a[1] \div g) * (b[1] \div h), (a[2] \div h) * (b[2] \div g))
RatDiv(a, b) == Rat(a[1] * b[2], a[2] * b[1])
RatLess(a, b) ==
    LET g == Gcd(a[2], b[2])
    IN  a[1] * (b[2] \div g) < b[1] * (a[2] \div g)
RatMax(a, b) == IF RatLess(a, b) THEN b ELSE a

\* The sum of the entries of a vector of numbers, left to right.
RECURSIVE RatSum(_)
RatSum(v) ==
    IF v = <<>> THEN Zero
    ELSE RatAdd(RatSum(SubSeq(v, 1, Len(v) - 1)), v[Len(v)])

----------------------------------------------------------------------------
(* Regret matching *)

\* Regret matching that leaves the strategy at its zero initialisation when
\* no regret is positive.
StrategyWithoutUniform(regret_vector) ==
    LET positive_regret_sum ==
            RatSum([i \in DOMAIN regret_vector |-> RatMax(Zero, regret_vector[i])])
    IN  [i \in DOMAIN regret_vector |->
            IF RatLess(Zero, positive_regret_sum)
            THEN RatDiv(RatMax(Zero, regret_vector[i]), positive_regret_sum)
            ELSE Zero]

get_strategy_from_regrets(regret_vector) ==
    LET num_actions == Len(regret_vector)
        positive_regret_sum ==
            RatSum([i \in DOMAIN regret_vector |-> RatMax(Zero, regret_vector[i])])
    IN  [i \in DOMAIN regret_vector |->
            IF RatLess(Zero, positive_regret_sum)
            THEN RatDiv(RatMax(Zero, regret_vector[i]), positive_regret_sum)
            ELSE Rat(1, num_actions)]

----------------------------------------------------------------------------
(* Node: the regrets and the accumulated strategy of one infoset *)

Node(num_actions) ==
    [regret_sum |-> [i \in 1 .. num_actions |-> Zero],
     strategy_sum |-> [i \in 1 .. num_actions |-> Zero],
     visit_count |-> 0]

\* An average strategy that stays at its zero initialisation when nothing
\* has been accumulated.
AverageWithoutUniform(node) ==
    LET total_strategy_sum == RatSum(node.strategy_sum)
    IN  [i \in DOMAIN node.strategy_sum |->
            IF RatLess(Zero, total_strategy_sum)
            THEN RatDiv(node.strategy_sum[i], total_strategy_sum)
            ELSE Zero]

get_average_strategy(node) ==
    LET total_strategy_sum == RatSum(node.strategy_sum)
    IN  [i \in DOMAIN node.strategy_sum |->
            IF RatLess(Zero, total_strategy_sum)
            THEN RatDiv(node.strategy_sum[i], total_strategy_sum)
            ELSE Rat(1, Len(node.strategy_sum))]

\* std::map orders its keys as strings.
RECURSIVE StringLess(_, _)
StringLess(a, b) ==
    IF b = <<>> THEN FALSE
    ELSE IF a = <<>> THEN TRUE
    ELSE IF Head(a) # Head(b) THEN CharCode[Head(a)] < CharCode[Head(b)]
    ELSE StringLess(Tail(a), Tail(b))

\* The keys of a map in the order an iteration over it meets them.
RECURSIVE KeysInOrder(_)
KeysInOrder(keys) ==
    IF keys = {} THEN <<>>
    ELSE LET first == CHOOSE k \in keys : \A other \in keys \ {k} : StringLess(k, other)
         IN  <<first>> \o KeysInOrder(keys \ {first})

----------------------------------------------------------------------------
(* Checkpoint files.  A file is absent, holds text that does not parse
   (truncated, garbage), or holds a JSON document: the version, the two
   counters, and node_map, which is an object with one member per key in key
   order, or something else.  A member of node_map holds the three members
   of a node, of which visit_count may be missing. *)

CHECKPOINT_VERSION_JSON == "1.0-json"

NoDocument ==
    [version |-> "", completed_iterations |-> 0, total_nodes_created |-> 0,
     node_map_is_object |-> FALSE, node_map |-> <<>>]

Absent == [kind |-> "absent", doc |-> NoDocument]
Unparsable == [kind |-> "unparsable", doc |-> NoDocument]
JsonFile(doc) == [kind |-> "json", doc |-> doc]

to_json(key, node) ==
    [key |-> key,
     regret_sum |-> node.regret_sum,
     strategy_sum |-> node.strategy_sum,
     visit_count |-> node.visit_count,
     has_visit_count |-> TRUE]

\* from_json throws: a member is missing, or the two vectors differ in size.
FromJsonThrows(member) ==
    \/ ~member.has_visit_count
    \/ Len(member.regret_sum) # Len(member.strategy_sum)

from_json(member) ==
    [regret_sum |-> member.regret_sum,
     strategy_sum |-> member.strategy_sum,
     visit_count |-> member.visit_count]

\* The document save_checkpoint builds from the engine.
CheckpointData(engine) ==
    LET keys == KeysInOrder(DOMAIN engine.node_map)
    IN  [version |-> CHECKPOINT_VERSION_JSON,
         completed_iterations |-> engine.completed_iterations,
         total_nodes_created |-> engine.total_nodes_created,
         node_map_is_object |-> TRUE,
         node_map |-> [i \in DOMAIN keys |-> to_json(keys[i], engine.node_map[keys[i]])]]

\* The deserialisation loop of load_checkpoint over the members from the
\* i-th on: the map so far, and whether a member made it stop.
RECURSIVE LoadNodes(_, _, _)
LoadNodes(members, i, loaded) ==
    IF i > Len(members) THEN [node_map |-> loaded, failed |-> FALSE]
    ELSE IF FromJsonThrows(members[i]) THEN [node_map |-> loaded, failed |-> TRUE]
    ELSE LoadNodes(members, i + 1,
                   IF members[i].key \in DOMAIN loaded THEN loaded
                   ELSE loaded @@ (members[i].key :> from_json(members[i])))

NoNodes == [key \in {} |-> Node(0)]

\* load_checkpoint: the engine it leaves and the value it returns.
load_checkpoint(engine, file) ==
    IF file.kind # "json" THEN [engine |-> engine, result |-> -1]
    ELSE IF file.doc.version # CHECKPOINT_VERSION_JSON
    THEN [engine |-> engine, result |-> -1]
    ELSE IF file.doc.completed_iterations < 0
    THEN [engine |-> engine, result |-> -1]
    ELSE IF ~file.doc.node_map_is_object
    THEN [engine |-> [engine EXCEPT !.node_map = NoNodes], result |-> -1]
    ELSE LET loop == LoadNodes(file.doc.node_map, 1, NoNodes)
             size == Cardinality(DOMAIN loop.node_map)
             loaded_nodes_created ==
                 IF \/ file.doc.total_nodes_created = 0
                    \/ file.doc.total_nodes_created # size
                 THEN size ELSE file.doc.total_nodes_created
         IN  IF loop.failed
             THEN [engine |-> [engine EXCEPT !.node_map = loop.node_map],
                   result |-> -1]
             ELSE [engine |-> [node_map |-> loop.node_map,
                               completed_iterations |-> file.doc.completed_iterations,
                               total_nodes_created |-> loaded_nodes_created],
                   result |-> file.doc.completed_iterations]

\* A solver as its constructor leaves it.
CFREngine ==
    [node_map |-> NoNodes, completed_iterations |-> 0, total_nodes_created |-> 0]

\* The names of the files a training run touches: the checkpoint it loads,
\* the checkpoint it saves, and the two temporary files of a save.
FileNames == {"load", "save", "save.tmp", "save.final.tmp"}

\* No thread holds the mutex.
Unlocked == -1

\* train has not been called.
NoCall ==
    [pc |-> "idle", iterations |-> 0, num_players |-> 0, initial_stack |-> 0,
     save_filename |-> "", checkpoint_interval |-> 0, load_filename |-> "",
     starting_iteration |-> 0, loaded_iters |-> 0]

\* Nothing has been asked of the solver yet.
SolverIdle ==
    /\ regrets = <<>>
    /\ strategy = get_strategy_from_regrets(<<>>)
    /\ node_map = CFREngine.node_map
    /\ total_nodes_created = CFREngine.total_nodes_created
    /\ completed_iterations = CFREngine.completed_iterations
    /\ files = [name \in FileNames |-> Absent]
    /\ train_call = NoCall
    /\ workers = <<>>
    /\ traversals = <<>>
    /\ node_map_mutex = Unlocked

----------------------------------------------------------------------------
(* The state machine: one GameState object, built by the constructor and
   then driven by apply_action calls.  A caller that gets an exception drops
   the object (CFREngine applies every action to a copy inside try/catch),
   so no call follows a throw. *)

\* Totals a BET/RAISE may name: small totals, the totals of the tests and the
\* whole commitment of the seat (all-in).
Amounts(p) ==
    (1 .. MaxAmount) \cup TestRaiseTotals
        \cup (IF p \in Seats(num_players)
              THEN {player_stacks[p] + bets_this_round[p]} ELSE {})

Install(s) ==
    /\ num_players' = s.num_players
    /\ ante_size' = s.ante_size
    /\ button_position' = s.button_position
    /\ current_player_index' = s.current_player_index
    /\ pot_size' = s.pot_size
    /\ player_stacks' = s.player_stacks
    /\ bets_this_round' = s.bets_this_round
    /\ current_street' = s.current_street
    /\ raise_count' = s.raise_count
    /\ limp_calls' = s.limp_calls
    /\ voluntary_action_taken' = s.voluntary_action_taken
    /\ raise_occurred' = s.raise_occurred
    /\ is_game_over' = s.is_game_over
    /\ last_raise_size' = s.last_raise_size
    /\ aggressor_this_round' = s.aggressor_this_round
    /\ actions_this_round' = s.actions_this_round
    /\ player_folded' = s.player_folded
    /\ player_all_in' = s.player_all_in
    /\ player_contributions' = s.player_contributions
    /\ player_acted_this_sequence' = s.player_acted_this_sequence

\* Constructor arguments explored: every small table, and the heads-up table
\* of the repository's tests, GameState(2, 100, 0, 0).
Configs ==
    {c \in [n : 2 .. MaxPlayers, stack : 1 .. MaxStack, ante : 0 .. MaxAnte,
            button : 0 .. (MaxPlayers - 1)] : c.button < c.n}
      \cup {[n |-> 2, stack |-> TestStack, ante |-> 0, button |-> 0]}

\* The object right after construction.
Constructed(s, stack) ==
    /\ num_players = s.num_players
    /\ initial_stack = stack
    /\ ante_size = s.ante_size
    /\ button_position = s.button_position
    /\ current_player_index = s.current_player_index
    /\ pot_size = s.pot_size
    /\ player_stacks = s.player_stacks
    /\ bets_this_round = s.bets_this_round
    /\ current_street = s.current_street
    /\ raise_count = s.raise_count
    /\ limp_calls = s.limp_calls
    /\ voluntary_action_taken = s.voluntary_action_taken
    /\ raise_occurred = s.raise_occurred
    /\ is_game_over = s.is_game_over
    /\ last_raise_size = s.last_raise_size
    /\ aggressor_this_round = s.aggressor_this_round
    /\ actions_this_round = s.actions_this_round
    /\ player_folded = s.player_folded
    /\ player_all_in = s.player_all_in
    /\ player_contributions = s.player_contributions
    /\ player_acted_this_sequence = s.player_acted_this_sequence
    /\ outcome = "constructed"

\* The root state of a CFR iteration, no action applied yet.
TraversalRoot(n, stack, ante, button) ==
    [state |-> GameState(n, stack, ante, button),
     action_history |-> <<>>,
     outcome |-> "constructed"]

\* The objects the driven GameState does not touch: a traversal at its root
\* and the InfoSet of that root before any card is dealt.
RootInfoSet == InfoSet(<<>>, get_history_string(<<>>), PREFLOP, <<>>, 0)

AtRoot ==
    /\ current_state = TraversalRoot(2, TestStack, 0, 0)
    /\ info_set = RootInfoSet
    /\ SolverIdle

Init ==
    /\ \E c \in Configs : Constructed(GameState(c.n, c.stack, c.ante, c.button), c.stack)
    /\ AtRoot

Apply(action) ==
    /\ outcome # "threw"
    /\ LET r == apply_action(State, action)
       IN  /\ Install(r.state)
           /\ outcome' = r.outcome
    /\ UNCHANGED <<initial_stack, current_state, info_set, solver_vars>>

Fold == \E p \in Seats(num_players) :
            Apply([type |-> "FOLD", amount |-> 0, player_index |-> p])

Check == \E p \in Seats(num_players) :
            Apply([type |-> "CHECK", amount |-> 0, player_index |-> p])

Call == \E p \in Seats(num_players) :
            Apply([type |-> "CALL", amount |-> 0, player_index |-> p])

Bet == \E p \in Seats(num_players) : \E a \in Amounts(p) :
            Apply([type |-> "BET", amount |-> a, player_index |-> p])

Raise == \E p \in Seats(num_players) : \E a \in Amounts(p) :
            Apply([type |-> "RAISE", amount |-> a, player_index |-> p])

Next == Fold \/ Check \/ Call \/ Bet \/ Raise

Spec == Init /\ [][Next]_vars

\* A fresh object: the constructor run on any table of up to MaxSeats seats
\* (GameStateTest::SetUp re-assigns its fixture, train() builds a root state
\* per iteration).
CtorConfigs ==
    {c \in [n : 2 .. MaxSeats, stack : (1 .. MaxStack) \cup {TestStack},
            ante : 0 .. MaxAnte, button : 0 .. (MaxSeats - 1)] : c.button < c.n}

Construct ==
    \E c \in CtorConfigs :
        /\ Install(GameState(c.n, c.stack, c.ante, c.button))
        /\ initial_stack' = c.stack
        /\ outcome' = "constructed"
        /\ UNCHANGED <<current_state, info_set, solver_vars>>

InitCtor == Constructed(GameState(2, TestStack, 0, 0), TestStack) /\ AtRoot

SpecCtor == InitCtor /\ [][Construct]_vars

----------------------------------------------------------------------------
(* A CFR traversal: the engine applies actions to its current_state, whose
   action_history_ is kept whole here.  The history grows with every call
   that reaches the push_back, also when the call then throws. *)

TraversalRoots ==
    {TraversalRoot(2, TestStack, 0, 0), TraversalRoot(6, TestStack, 0, 0)}

TraversalAmounts(s, p) ==
    (1 .. MaxAmount) \cup TestRaiseTotals
        \cup {s.player_stacks[p] + s.bets_this_round[p]}

\* The call gets as far as action_history_.push_back(action).
Pushes(s, action) ==
    ~s.is_game_over /\ action.player_index = s.current_player_index

ApplyTracked(traversal, action) ==
    LET r == apply_action(traversal.state, action)
    IN  [state |-> r.state,
         action_history |->
             IF Pushes(traversal.state, action)
             THEN Append(traversal.action_history, action)
             ELSE traversal.action_history,
         outcome |-> r.outcome]

Traverse ==
    /\ current_state.outcome # "threw"
    /\ Len(current_state.action_history) < MaxHistory
    /\ \E p \in Seats(current_state.state.num_players) :
       \E type \in {"FOLD", "CHECK", "CALL", "BET", "RAISE"} :
       \E a \in IF type \in {"BET", "RAISE"}
                THEN TraversalAmounts(current_state.state, p) ELSE {0} :
           current_state' =
               ApplyTracked(current_state,
                            [type |-> type, amount |-> a, player_index |-> p])
    /\ UNCHANGED <<game_vars, info_set, solver_vars>>

InitHistory ==
    /\ Constructed(GameState(2, TestStack, 0, 0), TestStack)
    /\ current_state \in TraversalRoots
    /\ info_set = RootInfoSet
    /\ SolverIdle

SpecHistory == InitHistory /\ [][Traverse]_vars

----------------------------------------------------------------------------
(* InfoSet objects: built for a state of the traversal, built by main for
   the extraction of a raise-first-in range, and re-keyed by set_hand. *)

RankOrder == <<"A", "K", "Q", "J", "T", "9", "8", "7", "6", "5", "4", "3", "2">>
SuitOrder == <<"c", "d", "h", "s">>

Ranks == {RankOrder[i] : i \in 1 .. MaxRanks}
Suits == {SuitOrder[i] : i \in 1 .. 4}
Deck == {<<r, s>> : r \in Ranks, s \in Suits}

\* Two different cards, in either order.
Hands == {h \in Deck \X Deck : h[1] # h[2]}

\* The boards dealt: none before the flop, three cards on it.
Flops ==
    {<<<<RankOrder[1], SuitOrder[i]>>, <<RankOrder[2], SuitOrder[i]>>,
       <<RankOrder[1], SuitOrder[(i % 4) + 1]>>>> : i \in 1 .. 4}
Boards == {<<>>} \cup Flops

TraversalInfoSet ==
    /\ \E p \in Seats(current_state.state.num_players) :
       \E hand \in Hands : \E board \in Boards :
           info_set' = InfoSet(hand,
                               get_history_string(current_state.action_history),
                               IF board = <<>> THEN PREFLOP ELSE FLOP,
                               board, p)
    /\ UNCHANGED <<game_vars, current_state, solver_vars>>

ExtractionInfoSet ==
    /\ \E n \in {2, 6} : \E p \in position_map(n) : \E hand \in Hands :
           info_set' = InfoSet(hand, rfi_history(n, p), PREFLOP, <<>>, p)
    /\ UNCHANGED <<game_vars, current_state, solver_vars>>

SetHand ==
    /\ \E hand \in Hands : info_set' = set_hand(info_set, hand)
    /\ UNCHANGED <<game_vars, current_state, solver_vars>>

NextInfoSet == TraversalInfoSet \/ ExtractionInfoSet \/ SetHand

SpecInfoSet == InitCtor /\ [][NextInfoSet]_vars

----------------------------------------------------------------------------
(* Regret matching asked for one regret vector after another: the caller
   extends the vector it asked about last, or starts again from none. *)

Regrets == {Rat(r, 1) : r \in -MaxRegret .. MaxRegret}

MatchRegrets(regret_vector) ==
    /\ regrets' = regret_vector
    /\ strategy' = get_strategy_from_regrets(regret_vector)
    /\ UNCHANGED <<game_vars, current_state, info_set, engine_vars>>

MatchLonger ==
    /\ Len(regrets) < MaxActions
    /\ \E r \in Regrets : MatchRegrets(Append(regrets, r))

MatchEmpty == MatchRegrets(<<>>)

NextRegrets == MatchLonger \/ MatchEmpty

SpecRegrets == InitCtor /\ [][NextRegrets]_vars

----------------------------------------------------------------------------
(* Settlement of a hand that ended by folds (CFREngine::cfr_plus_recursive,
   terminal branch): a folded traverser loses its contribution, the only
   unfolded player wins what the others contributed. *)

total_pot_size(n, contributions) == SumTo(contributions, n)

\* The survivor credited with the whole pot, own chips included.
FoldPayoffWholePot(n, contributions, is_folded, traversing_player) ==
    IF is_folded[traversing_player]
    THEN 0 - contributions[traversing_player]
    ELSE total_pot_size(n, contributions)

FoldPayoff(n, contributions, is_folded, traversing_player) ==
    IF is_folded[traversing_player]
    THEN 0 - contributions[traversing_player]
    ELSE total_pot_size(n, contributions) - contributions[traversing_player]

----------------------------------------------------------------------------
(* GameState helper getters over the action history *)

get_effective_stack(s, player_index) ==
    IF player_index < 0 \/ player_index >= s.num_players THEN 0
    ELSE LET potential(i) == s.player_stacks[i] + s.bets_this_round[i]
             opponents == {i \in Seats(s.num_players) :
                              i # player_index /\ ~s.player_folded[i]}
         IN  IF opponents = {} THEN s.player_stacks[player_index]
             ELSE LET min_opponent_potential ==
                          CHOOSE m \in {potential(i) : i \in opponents} :
                              \A i \in opponents : m <= potential(i)
                  IN  Min(potential(player_index), min_opponent_potential)

\* The BET/RAISE entries of the whole history; on the preflop street the
\* big blind counts as the first raise level until a CALL or RAISE is made.
get_raises_this_street(s) ==
    IF s.current_street = PREFLOP /\ s.raise_count = 0 /\ ~s.voluntary_action_taken
    THEN 1
    ELSE s.raise_count

is_first_to_act_preflop(s, player_index) ==
    IF s.current_street # PREFLOP THEN FALSE
    ELSE IF s.voluntary_action_taken THEN FALSE
    ELSE player_index = s.current_player_index

get_num_limpers(s) ==
    IF s.current_street # PREFLOP THEN 0
    ELSE IF s.raise_occurred THEN 0
    ELSE s.limp_calls

\* GameState has no get_last_raiser in this tree although ActionAbstraction
\* calls it; it is the seat of the last bet or raise of the street.
get_last_raiser(s) == s.aggressor_this_round

----------------------------------------------------------------------------
(* ActionAbstraction.  An ActionSpec is [type, value10, unit] with value10
   ten times ActionSpec::value (2.2bb is 22, 33% is 330), so that the
   roundings of the code are integer arithmetic. *)

BIG_BLIND_SIZE == 2

ActionSpec(type, value10, unit) == [type |-> type, value10 |-> value10, unit |-> unit]

\* {ActionType::X}: value 0.0 and the default unit.
PlainSpec(type) == ActionSpec(type, 0, "BB")

\* static_cast<int>(value * x + 0.5) for the non-negative values in use.
RoundValueTimes(value10, x) == (value10 * x + 5) \div 10

\* (pot * static_cast<long long>(value) + 50) / 100, at least 1 chip.
PctIncrement(pot, value10) == Max(1, (pot * (value10 \div 10) + 50) \div 100)

\* min_raise_increment of get_action_amount and of the min-legal filter.
MinRaiseIncrement(s) ==
    Max(1, IF s.last_raise_size > 0 THEN s.last_raise_size ELSE BIG_BLIND_SIZE)

\* pot_after_call of the RAISE case.
PotAfterCall(s) ==
    LET p == s.current_player_index
    IN  s.pot_size
          + SumTo([i \in Seats(s.num_players) |->
                      IF i = p THEN 0 ELSE s.bets_this_round[i]], s.num_players)
          + (s.bets_this_round[p] + get_amount_to_call(s, p))

\* A multiplier target that puts the whole product v x bet faced on top of
\* the call.
RaiseTargetXOnTop(s, value10) ==
    LET p == s.current_player_index
        raise_base_amount == s.bets_this_round[p] + get_amount_to_call(s, p)
    IN  raise_base_amount + RoundValueTimes(value10, raise_base_amount)

\* MULTIPLIER_X target of a RAISE: the total is v times the bet faced.
RaiseTargetX(s, value10) ==
    LET p == s.current_player_index
        raise_base_amount == s.bets_this_round[p] + get_amount_to_call(s, p)
        last_bet_or_raise_amount == get_amount_to_call(s, p) + s.bets_this_round[p]
        target_raise_total == RoundValueTimes(value10, last_bet_or_raise_amount)
        raise_increment == Max(1, target_raise_total - raise_base_amount)
    IN  raise_base_amount + raise_increment

\* target_total_bet of a RAISE before the minimum-raise floor and the stack
\* cap; -1 for a unit without a sizing rule.
RaiseTarget(s, spec) ==
    LET p == s.current_player_index
        raise_base_amount == s.bets_this_round[p] + get_amount_to_call(s, p)
    IN  CASE spec.unit = "BB" -> RoundValueTimes(spec.value10, BIG_BLIND_SIZE)
          [] spec.unit = "PCT_POT" ->
                raise_base_amount + PctIncrement(PotAfterCall(s), spec.value10)
          [] spec.unit = "MULTIPLIER_X" -> RaiseTargetX(s, spec.value10)
          [] OTHER -> -1

\* A RAISE amount without the minimum-raise floor.
RaiseAmountNoFloor(s, spec) ==
    LET p == s.current_player_index
    IN  IF RaiseTarget(s, spec) = -1 THEN -1
        ELSE Min(s.player_stacks[p] + s.bets_this_round[p], RaiseTarget(s, spec))

RaiseAmount(s, spec) ==
    LET p == s.current_player_index
        raise_base_amount == s.bets_this_round[p] + get_amount_to_call(s, p)
        min_legal_raise_total == raise_base_amount + MinRaiseIncrement(s)
    IN  IF RaiseTarget(s, spec) = -1 THEN -1
        ELSE Min(s.player_stacks[p] + s.bets_this_round[p],
                 Max(RaiseTarget(s, spec), min_legal_raise_total))

\* A BET amount without the one-big-blind floor.
BetAmountNoFloor(s, spec) ==
    LET p == s.current_player_index
        current_bet == s.bets_this_round[p]
        target == CASE spec.unit = "PCT_POT" ->
                          current_bet + PctIncrement(s.pot_size, spec.value10)
                    [] spec.unit = "BB" -> RoundValueTimes(spec.value10, BIG_BLIND_SIZE)
                    [] OTHER -> -1
    IN  IF get_amount_to_call(s, p) # 0 THEN -1
        ELSE IF target = -1 THEN -1
        ELSE Min(s.player_stacks[p] + current_bet, target)

BetAmount(s, spec) ==
    LET p == s.current_player_index
        current_bet == s.bets_this_round[p]
        player_stack == s.player_stacks[p]
        target == CASE spec.unit = "PCT_POT" ->
                          current_bet + PctIncrement(s.pot_size, spec.value10)
                    [] spec.unit = "BB" -> RoundValueTimes(spec.value10, BIG_BLIND_SIZE)
                    [] OTHER -> -1
        min_bet_increment == Min(player_stack, Max(1, BIG_BLIND_SIZE))
    IN  IF get_amount_to_call(s, p) # 0 THEN -1
        ELSE IF target = -1 THEN -1
        ELSE Min(player_stack + current_bet, Max(target, current_bet + min_bet_increment))

get_action_amount(spec, s) ==
    LET p == s.current_player_index
    IN  IF p < 0 THEN -1
        ELSE CASE spec.type \in {"FOLD", "CHECK", "CALL"} -> -1
               [] spec.type = "ALL_IN" -> s.player_stacks[p] + s.bets_this_round[p]
               [] spec.type = "BET" -> BetAmount(s, spec)
               [] spec.type = "RAISE" -> RaiseAmount(s, spec)
               [] OTHER -> -1

\* The preflop sizings of get_possible_action_specs.
PreflopSizings(s) ==
    LET p == s.current_player_index
        n == s.num_players
        sb_index == SbIndex(n, s.button_position)
        bb_index == BbIndex(n, s.button_position)
        amount_to_call == get_amount_to_call(s, p)
        facing_bet_or_raise == amount_to_call > 0
        num_raises == get_raises_this_street(s)
        num_limpers == get_num_limpers(s)
        EFFECTIVE_STACK_BB == get_effective_stack(s, p) \div BIG_BLIND_SIZE
        is_rfi_situation ==
            /\ (~facing_bet_or_raise \/ (amount_to_call = BIG_BLIND_SIZE /\ num_raises = 0))
            /\ num_limpers = 0
        open_size_bb_small == IF EFFECTIVE_STACK_BB < 25 THEN 20
                              ELSE IF EFFECTIVE_STACK_BB < 35 THEN 21 ELSE 22
    IN  IF n = 2 /\ p = sb_index /\ num_raises = 0
        THEN {ActionSpec("RAISE", 30, "BB"), ActionSpec("RAISE", 40, "BB")}
        ELSE IF is_rfi_situation
        THEN IF p = sb_index /\ n > 2
             THEN {ActionSpec("RAISE", 30, "BB"), ActionSpec("RAISE", 40, "BB")}
             ELSE IF is_first_to_act_preflop(s, p)
             THEN {ActionSpec("RAISE", open_size_bb_small, "BB"),
                   ActionSpec("RAISE", 25, "BB"),
                   ActionSpec("RAISE", 30, "BB")}
             ELSE {}
        ELSE IF ~facing_bet_or_raise /\ num_limpers > 0
        THEN IF n = 2 /\ p = bb_index
             THEN {ActionSpec("RAISE", 30, "BB"), ActionSpec("RAISE", 40, "BB")}
             ELSE {ActionSpec("RAISE", (3 + num_limpers) * 10, "BB"),
                   ActionSpec("RAISE", (4 + num_limpers) * 10, "BB")}
        ELSE IF facing_bet_or_raise
        THEN IF num_raises = 1
             THEN IF n = 2 /\ p = bb_index /\ get_last_raiser(s) = sb_index
                  THEN {ActionSpec("RAISE", 30, "MULTIPLIER_X"),
                        ActionSpec("RAISE", 40, "MULTIPLIER_X"),
                        PlainSpec("ALL_IN")}
                  ELSE IF EFFECTIVE_STACK_BB <= 40 THEN {PlainSpec("ALL_IN")} ELSE {}
             ELSE IF num_raises = 2
             THEN {ActionSpec("RAISE", 25, "MULTIPLIER_X"), PlainSpec("ALL_IN")}
             ELSE {PlainSpec("ALL_IN")}
        ELSE {}

\* The postflop sizings of get_possible_action_specs.
PostflopSizings(s) ==
    (IF get_amount_to_call(s, s.current_player_index) = 0
     THEN {ActionSpec("BET", 330, "PCT_POT"), ActionSpec("BET", 500, "PCT_POT"),
           ActionSpec("BET", 750, "PCT_POT"), ActionSpec("BET", 1000, "PCT_POT"),
           ActionSpec("BET", 1330, "PCT_POT")}
     ELSE {ActionSpec("RAISE", 22, "MULTIPLIER_X"), ActionSpec("RAISE", 30, "MULTIPLIER_X")})
    \cup {PlainSpec("ALL_IN")}

\* The heads-up small-blind opening spot in which FOLD is erased.
RemovesFold(s) ==
    /\ s.current_street = PREFLOP
    /\ s.num_players = 2
    /\ s.current_player_index = s.button_position
    /\ get_raises_this_street(s) = 0

\* candidate_specs_set before amounts are computed.
CandidateSpecs(s) ==
    LET p == s.current_player_index
        player_stack == s.player_stacks[p]
        amount_to_call == get_amount_to_call(s, p)
        fold == IF amount_to_call > 0 /\ player_stack > 0 THEN {PlainSpec("FOLD")} ELSE {}
        check_or_call == IF amount_to_call = 0 THEN {PlainSpec("CHECK")}
                         ELSE IF player_stack >= amount_to_call THEN {PlainSpec("CALL")}
                         ELSE {}
        all == IF player_stack > 0 /\ amount_to_call <= player_stack
               THEN fold \cup check_or_call
                      \cup (IF s.current_street = PREFLOP THEN PreflopSizings(s)
                            ELSE PostflopSizings(s))
               ELSE IF player_stack > 0 /\ amount_to_call > 0 /\ player_stack <= amount_to_call
               THEN {PlainSpec("FOLD"), PlainSpec("ALL_IN")}
               ELSE fold \cup check_or_call
    IN  IF RemovesFold(s) THEN all \ {PlainSpec("FOLD")} ELSE all

\* min_legal_total_bet of the min-legal validation.
MinLegalTotalBet(s, spec) ==
    LET p == s.current_player_index
        current_bet == s.bets_this_round[p]
        player_stack == s.player_stacks[p]
    IN  IF spec.type = "BET"
        THEN Min(current_bet + Max(1, BIG_BLIND_SIZE), current_bet + player_stack)
        ELSE Min(current_bet + get_amount_to_call(s, p) + MinRaiseIncrement(s),
                 current_bet + player_stack)

\* The amount the filter loop pairs with a spec.
SpecAmount(s, spec) ==
    LET p == s.current_player_index
    IN  CASE spec.type \in {"BET", "RAISE"} -> get_action_amount(spec, s)
          [] spec.type = "ALL_IN" -> s.player_stacks[p] + s.bets_this_round[p]
          [] spec.type = "CALL" -> s.bets_this_round[p] + get_amount_to_call(s, p)
          [] spec.type = "CHECK" -> s.bets_this_round[p]
          [] OTHER -> -1

\* A candidate the filter loop keeps.
KeepsSpec(s, spec) ==
    LET p == s.current_player_index
        all_in_amount == s.player_stacks[p] + s.bets_this_round[p]
    IN  IF spec.type \in {"BET", "RAISE"}
        THEN /\ get_action_amount(spec, s) # -1
             /\ ~( /\ SpecAmount(s, spec) < MinLegalTotalBet(s, spec)
                   /\ SpecAmount(s, spec) # all_in_amount )
        ELSE TRUE

\* The specs returned (the unique-amount filter being commented out); the
\* order of the returned vector is not modelled.
get_possible_action_specs(s) ==
    IF s.current_player_index < 0 THEN {}
    ELSE IF s.player_stacks[s.current_player_index] <= 0 THEN {}
    ELSE {spec \in CandidateSpecs(s) : KeepsSpec(s, spec)}

----------------------------------------------------------------------------
(* CFREngine::cfr_plus_recursive at one decision point, and one call of
   CFREngine::train with its worker threads and its checkpoint files.  The
   traversals of an iteration are followed as far as the first node they
   visit, the root of the iteration's game. *)

MaxIterations == 2
MaxThreads == 2
MaxInterval == 2

\* master_deck: thirteen ranks in four suits.
DECK_SIZE == 52

\* The player counts of a run (heads-up, and one seat more than the deck
\* deals), and its stacks.
TrainPlayers == {2, 27}
TrainStacks == {20, TestStack}

\* if (card_index + 1 >= deck.size()) deal_ok = false, for some seat.
deal_ok(n) == \A p \in 0 .. (n - 1) : ~(2 * p + 1 >= DECK_SIZE)

\* The hands the shuffled deck deals to the seats of a two-player game.
DealtHands == <<<<<<"A", "s">>, <<"K", "h">>>>, <<<<"Q", "d">>, <<"Q", "c">>>>>>

\* The decision point the traversals of a two-player iteration meet first:
\* the root of the game with the iteration's button.
root_state(stack, button_pos) == TraversalRoot(2, stack, 0, button_pos)

\* The roots that two threads of one iteration each are at.
DecisionPoints(stack) == {root_state(stack, button_pos) : button_pos \in {0, 1}}

info_set_key(traversal) ==
    InfoSet(DealtHands[traversal.state.current_player_index + 1],
            get_history_string(traversal.action_history),
            traversal.state.current_street, <<>>,
            traversal.state.current_player_index).key

legal_actions(traversal) == get_possible_action_specs(traversal.state)

\* The utilities the recursion returns for the actions: the first or the
\* last of them wins.
UtilityVectors(num_actions) ==
    {[i \in 1 .. num_actions |-> IF i = j THEN One ELSE Rat(-1, 1)] :
        j \in {1, num_actions}}

\* The counterfactual reach of a node: none, or everything.
ReachProbabilities == {Zero, One}

\* What a read past the end of a vector may yield.
Garbage == {Zero, One, Rat(-1, 1)}

Epsilon == Rat(1, 1000000000)

\* The strategy entry of the i-th action: past the end of current_strategy
\* the read is out of range.
StrategyEntry(current_strategy, i, garbage) ==
    IF i <= Len(current_strategy) THEN current_strategy[i] ELSE garbage

\* Step 5 of cfr_plus_recursive on the traversing player's node, with
\* player_reach_prob = 1.0, the traversing player's own reach.  A write past
\* the end of a vector of the node lands outside the node.
UpdateNode(node, num_actions, current_strategy, action_utilities, counterfactual_reach_prob, garbage) ==
    LET node_utility ==
            RatSum([i \in 1 .. num_actions |->
                       RatMul(StrategyEntry(current_strategy, i, garbage),
                              action_utilities[i])])
        player_reach_prob == One
    IN  [node EXCEPT
            !.regret_sum =
                [i \in DOMAIN @ |->
                    IF i <= num_actions /\ RatLess(Epsilon, counterfactual_reach_prob)
                    THEN RatAdd(@[i], RatMul(counterfactual_reach_prob,
                                             RatSub(action_utilities[i], node_utility)))
                    ELSE @[i]],
            !.strategy_sum =
                [i \in DOMAIN @ |->
                    IF i <= num_actions /\ RatLess(Epsilon, player_reach_prob)
                    THEN RatAdd(@[i], RatMul(player_reach_prob,
                                             StrategyEntry(current_strategy, i, garbage)))
                    ELSE @[i]]]

\* The node of a decision point once the traversing player has gone through
\* it one time.
VisitedNode(traversal) ==
    LET num_actions == Cardinality(legal_actions(traversal))
        node == Node(num_actions)
        updated == UpdateNode(node, num_actions,
                              get_strategy_from_regrets(node.regret_sum),
                              [i \in 1 .. num_actions |-> IF i = 1 THEN One ELSE Rat(-1, 1)],
                              One, Zero)
    IN  [updated EXCEPT !.visit_count = 1]

\* The solver thread 0 of an earlier run saves after its first iteration,
\* thread 1 being in its own.
EarlierRun(stack) ==
    [node_map |-> [key \in {info_set_key(dp) : dp \in DecisionPoints(stack)} |->
                      VisitedNode(CHOOSE dp \in DecisionPoints(stack) :
                                      info_set_key(dp) = key)],
     completed_iterations |-> 1,
     total_nodes_created |-> Cardinality(DecisionPoints(stack))]

\* The checkpoints earlier runs saved, and what damage makes of one of them:
\* another version, a node count that disagrees with the nodes, a node_map
\* that is no object, a last node without its visit_count.
SavedCheckpoints == {JsonFile(CheckpointData(EarlierRun(stack))) : stack \in TrainStacks}

DamagedCheckpoints ==
    LET doc == CheckpointData(EarlierRun(TestStack))
    IN  {Unparsable,
         JsonFile([doc EXCEPT !.version = "0.9-json"]),
         JsonFile([doc EXCEPT !.total_nodes_created = @ + 1]),
         JsonFile([doc EXCEPT !.node_map_is_object = FALSE, !.node_map = <<>>]),
         JsonFile([doc EXCEPT !.node_map[Len(doc.node_map)].has_visit_count = FALSE])}

CheckpointFiles == SavedCheckpoints \cup DamagedCheckpoints

Engine ==
    [node_map |-> node_map,
     completed_iterations |-> completed_iterations,
     total_nodes_created |-> total_nodes_created]

\* Someone puts a checkpoint where a run will load it, or where it will save.
Store(name) ==
    /\ train_call.pc = "idle"
    /\ \E content \in CheckpointFiles :
        /\ files[name] = Absent
        /\ name = "save" => content = JsonFile(CheckpointData(EarlierRun(TestStack)))
        /\ files' = [files EXCEPT ![name] = content]
    /\ UNCHANGED <<game_vars, current_state, info_set, helper_vars, traversal_vars, node_map,
                   total_nodes_created, completed_iterations, train_call, workers>>

StoreFile == \E name \in {"load", "save"} : Store(name)

\* A thread of worker_task before its first iteration.
Worker(iterations_for_thread) ==
    [pc |-> "loop", iterations_for_thread |-> iterations_for_thread, i |-> 0,
     info_set_key |-> <<>>,
     num_actions |-> 0, is_traverser |-> FALSE, current_strategy |-> <<>>]

\* train up to the launch of the threads: the load, the early return, the
\* reset of the counter, the split of the iterations.
TrainStart(iterations, players, stack, num_threads, hardware_threads, save_filename, checkpoint_interval, load_filename) ==
    /\ train_call.pc = "idle"
    /\ LET loaded == IF load_filename # ""
                     THEN load_checkpoint(Engine, files[load_filename])
                     ELSE [engine |-> Engine, result |-> -1]
           starting_iteration == IF loaded.result >= 0 THEN loaded.result ELSE 0
           iterations_to_run == iterations - starting_iteration
           limited == IF num_threads <= 0 THEN hardware_threads
                      ELSE Min(num_threads, hardware_threads)
           threads_to_use == IF limited = 0 THEN 1 ELSE limited
           iterations_per_thread == iterations_to_run \div threads_to_use
           remaining_iterations == iterations_to_run % threads_to_use
           iters(i) == iterations_per_thread + (IF i < remaining_iterations THEN 1 ELSE 0)
           call == [pc |-> "running", iterations |-> iterations,
                    num_players |-> players, initial_stack |-> stack,
                    save_filename |-> save_filename,
                    checkpoint_interval |-> checkpoint_interval,
                    load_filename |-> load_filename,
                    starting_iteration |-> starting_iteration,
                    loaded_iters |-> loaded.result]
       IN  /\ node_map' = loaded.engine.node_map
           /\ total_nodes_created' = loaded.engine.total_nodes_created
           /\ IF iterations_to_run <= 0
              THEN /\ completed_iterations' = loaded.engine.completed_iterations
                   /\ train_call' = [call EXCEPT !.pc = "returned"]
                   /\ workers' = <<>>
              ELSE /\ completed_iterations' = starting_iteration
                   /\ train_call' = call
                   /\ workers' = [i \in {i \in 0 .. (threads_to_use - 1) : iters(i) > 0} |->
                                     Worker(iters(i))]
    /\ UNCHANGED <<game_vars, current_state, info_set, helper_vars, traversal_vars, files>>

Train ==
    \E iterations \in 0 .. MaxIterations : \E players \in TrainPlayers :
    \E stack \in TrainStacks : \E num_threads \in 0 .. MaxThreads :
    \E hardware_threads \in 0 .. MaxThreads : \E save_filename \in {"", "save"} :
    \E checkpoint_interval \in 0 .. MaxInterval : \E load_filename \in {"", "load"} :
        /\ save_filename = "" => checkpoint_interval = 0
        /\ TrainStart(iterations, players, stack, num_threads, hardware_threads,
                      save_filename, checkpoint_interval, load_filename)

At(t, pc) ==
    /\ train_call.pc = "running"
    /\ t \in DOMAIN workers
    /\ workers[t].pc = pc

\* The process ends on the spot.
Crash ==
    /\ train_call' = [train_call EXCEPT !.pc = "crashed"]
    /\ UNCHANGED <<node_map, total_nodes_created, completed_iterations, files, workers>>

\* An iteration whose deal runs out of cards: continue, past the count.
DealFails(t) ==
    /\ At(t, "loop")
    /\ workers[t].i < workers[t].iterations_for_thread
    /\ ~deal_ok(train_call.num_players)
    /\ workers' = [workers EXCEPT ![t].i = @ + 1]
    /\ UNCHANGED <<game_vars, current_state, info_set, helper_vars, traversal_vars, node_map,
                   total_nodes_created, completed_iterations, files, train_call>>

\* The traversals of an iteration end without a visit: an exception of
\* cfr_plus_recursive, caught in worker_task.
TraversalThrows(t) ==
    /\ At(t, "loop")
    /\ workers[t].i < workers[t].iterations_for_thread
    /\ deal_ok(train_call.num_players)
    /\ workers' = [workers EXCEPT ![t].pc = "count"]
    /\ UNCHANGED <<game_vars, current_state, info_set, helper_vars, traversal_vars, node_map,
                   total_nodes_created, completed_iterations, files, train_call>>

\* The traversal arrives at a decision point: the node is looked up, or
\* created with as many entries as there are legal actions, under the mutex.
LookupNode(t) ==
    /\ At(t, "loop")
    /\ workers[t].i < workers[t].iterations_for_thread
    /\ deal_ok(train_call.num_players)
    /\ \E is_traverser \in BOOLEAN :
        LET global_iteration_approx ==
                train_call.starting_iteration
                    + t * workers[t].iterations_for_thread + workers[t].i
            button_pos == global_iteration_approx % train_call.num_players
            traversal == root_state(train_call.initial_stack, button_pos)
            key == info_set_key(traversal)
            num_actions == Cardinality(legal_actions(traversal))
        IN  /\ num_actions # 0
            /\ IF key \in DOMAIN node_map
               THEN UNCHANGED <<node_map, total_nodes_created>>
               ELSE /\ node_map' = node_map @@ (key :> Node(num_actions))
                    /\ total_nodes_created' = total_nodes_created + 1
            /\ workers' = [workers EXCEPT ![t] =
                              [@ EXCEPT !.pc = "read", !.info_set_key = key,
                                        !.num_actions = num_actions,
                                        !.is_traverser = is_traverser]]
    /\ UNCHANGED <<game_vars, current_state, info_set, helper_vars, traversal_vars,
                   completed_iterations, files, train_call>>

\* The regrets are copied under the mutex and matched; the loop over the
\* actions then reads current_strategy[i] for every legal action, in range
\* or not.
ReadRegrets(t) ==
    /\ At(t, "read")
    /\ LET node == node_map[workers[t].info_set_key]
       IN  \/ /\ workers' = [workers EXCEPT ![t] =
                                [@ EXCEPT !.pc = IF workers[t].is_traverser THEN "update" ELSE "count",
                                          !.current_strategy =
                                              get_strategy_from_regrets(node.regret_sum)]]
              /\ UNCHANGED <<node_map, total_nodes_created, completed_iterations,
                             files, train_call>>
           \/ /\ workers[t].num_actions > Len(node.regret_sum)
              /\ Crash
    /\ UNCHANGED <<game_vars, current_state, info_set, helper_vars, traversal_vars>>

\* The regrets and the strategy sums of the traversing player's node are
\* updated under the mutex, for every legal action, in range or not.
UpdateRegrets(t) ==
    /\ At(t, "update")
    /\ LET node == node_map[workers[t].info_set_key]
           in_range == workers[t].num_actions <= Len(node.regret_sum)
       IN  \/ /\ \E action_utilities \in UtilityVectors(workers[t].num_actions) :
                 \E counterfactual_reach_prob \in ReachProbabilities :
                 \E garbage \in (IF in_range THEN {Zero} ELSE Garbage) :
                     node_map' = [node_map EXCEPT ![workers[t].info_set_key] =
                                     UpdateNode(node, workers[t].num_actions,
                                                workers[t].current_strategy,
                                                action_utilities,
                                                counterfactual_reach_prob, garbage)]
              /\ workers' = [workers EXCEPT ![t].pc = "visit"]
              /\ UNCHANGED <<total_nodes_created, completed_iterations, files, train_call>>
           \/ /\ ~in_range
              /\ Crash
    /\ UNCHANGED <<game_vars, current_state, info_set, helper_vars, traversal_vars>>

\* node.visit_count++, outside the mutex.
CountVisit(t) ==
    /\ At(t, "visit")
    /\ node_map' = [node_map EXCEPT ![workers[t].info_set_key].visit_count = @ + 1]
    /\ workers' = [workers EXCEPT ![t].pc = "count"]
    /\ UNCHANGED <<game_vars, current_state, info_set, helper_vars, traversal_vars,
                   total_nodes_created, completed_iterations, files, train_call>>

\* completed_iterations_++, and the test of thread 0 for a periodic save.
CountIteration(t) ==
    /\ At(t, "count")
    /\ completed_iterations' = completed_iterations + 1
    /\ LET current_completed == completed_iterations
           completed_count == current_completed + 1
           saves == /\ t = 0
                    /\ train_call.save_filename # ""
                    /\ train_call.checkpoint_interval > 0
                    /\ completed_count % train_call.checkpoint_interval = 0
                    /\ completed_count > 0
       IN  workers' = [workers EXCEPT ![t] =
                          [@ EXCEPT !.pc = IF saves THEN "save" ELSE "loop",
                                    !.i = @ + 1]]
    /\ UNCHANGED <<game_vars, current_state, info_set, helper_vars, traversal_vars, node_map,
                   total_nodes_created, files, train_call>>

\* How save_checkpoint ends: the file cannot be opened, the write fails on
\* the way, or the document is written.
SaveResults == {"not opened", "write failed", "written"}

\* The files after save_checkpoint(filename).
save_checkpoint(filename, result) ==
    [files EXCEPT ![filename] =
        IF result = "not opened" THEN @
        ELSE IF result = "write failed" THEN Unparsable
        ELSE JsonFile(CheckpointData(Engine))]

\* The files after std::filesystem::rename(temp_filename, save_filename),
\* and after the removal of the temporary file when the rename throws.
rename(temp_filename, save_filename, renamed, removed) ==
    IF renamed
    THEN [files EXCEPT ![save_filename] = files[temp_filename],
                       ![temp_filename] = Absent]
    ELSE IF removed THEN [files EXCEPT ![temp_filename] = Absent]
    ELSE files

\* A periodic save that goes on to the rename whatever save_checkpoint
\* returned.
SavePeriodicUnchecked(t) ==
    /\ At(t, "save")
    /\ \E result \in SaveResults : files' = save_checkpoint("save.tmp", result)
    /\ workers' = [workers EXCEPT ![t].pc = "rename"]
    /\ UNCHANGED <<game_vars, current_state, info_set, helper_vars, traversal_vars, node_map,
                   total_nodes_created, completed_iterations, train_call>>

\* Thread 0 saves the periodic checkpoint to the temporary file.
SavePeriodic(t) ==
    /\ At(t, "save")
    /\ \E result \in SaveResults :
        /\ files' = save_checkpoint("save.tmp", result)
        /\ workers' = [workers EXCEPT ![t].pc = IF result = "written" THEN "rename" ELSE "loop"]
    /\ UNCHANGED <<game_vars, current_state, info_set, helper_vars, traversal_vars, node_map,
                   total_nodes_created, completed_iterations, train_call>>

RenamePeriodic(t) ==
    /\ At(t, "rename")
    /\ \E renamed \in BOOLEAN : \E removed \in BOOLEAN :
        files' = rename("save.tmp", train_call.save_filename, renamed, removed)
    /\ workers' = [workers EXCEPT ![t].pc = "loop"]
    /\ UNCHANGED <<game_vars, current_state, info_set, helper_vars, traversal_vars, node_map,
                   total_nodes_created, completed_iterations, train_call>>

\* Every thread has run its iterations.
Joined ==
    \A t \in DOMAIN workers :
        workers[t].pc = "loop" /\ workers[t].i = workers[t].iterations_for_thread

\* train after the join without a save_filename.
Return ==
    /\ train_call.pc = "running"
    /\ Joined
    /\ train_call.save_filename = ""
    /\ train_call' = [train_call EXCEPT !.pc = "returned"]
    /\ UNCHANGED <<game_vars, current_state, info_set, helper_vars, traversal_vars, node_map,
                   total_nodes_created, completed_iterations, files, workers>>

\* train after the join with a save_filename: the final save to its
\* temporary file.
SaveFinal ==
    /\ train_call.pc = "running"
    /\ Joined
    /\ train_call.save_filename # ""
    /\ \E result \in SaveResults :
        /\ files' = save_checkpoint("save.final.tmp", result)
        /\ train_call' = [train_call EXCEPT
                             !.pc = IF result = "written" THEN "final rename" ELSE "returned"]
    /\ UNCHANGED <<game_vars, current_state, info_set, helper_vars, traversal_vars, node_map,
                   total_nodes_created, completed_iterations, workers>>

RenameFinal ==
    /\ train_call.pc = "final rename"
    /\ \E renamed \in BOOLEAN : \E removed \in BOOLEAN :
        files' = rename("save.final.tmp", train_call.save_filename, renamed, removed)
    /\ train_call' = [train_call EXCEPT !.pc = "returned"]
    /\ UNCHANGED <<game_vars, current_state, info_set, helper_vars, traversal_vars, node_map,
                   total_nodes_created, completed_iterations, workers>>

Threads == 0 .. (MaxThreads - 1)

\* The steps of a thread in the traversals of an iteration.
TraversalStep(t) ==
    \/ TraversalThrows(t)
    \/ LookupNode(t)
    \/ ReadRegrets(t)
    \/ UpdateRegrets(t)
    \/ CountVisit(t)

WorkerStep(t) ==
    \/ DealFails(t)
    \/ TraversalStep(t)
    \/ CountIteration(t)
    \/ SavePeriodic(t)
    \/ RenamePeriodic(t)

NextTrain ==
    \/ StoreFile
    \/ Train
    \/ \E t \in Threads : WorkerStep(t)
    \/ Return
    \/ SaveFinal
    \/ RenameFinal

SpecTrain == InitCtor /\ [][NextTrain]_vars

----------------------------------------------------------------------------
(* Training runs that save nothing: what becomes of the nodes *)

TrainWithoutSave ==
    \E iterations \in 0 .. MaxIterations : \E players \in TrainPlayers :
    \E stack \in TrainStacks : \E num_threads \in 0 .. MaxThreads :
    \E hardware_threads \in 0 .. MaxThreads : \E load_filename \in {"", "load"} :
        TrainStart(iterations, players, stack, num_threads, hardware_threads,
                   "", 0, load_filename)

NextVisits ==
    \/ Store("load")
    \/ TrainWithoutSave
    \/ \E t \in Threads : DealFails(t) \/ TraversalStep(t) \/ CountIteration(t)
    \/ Return

SpecVisits == InitCtor /\ [][NextVisits]_vars

----------------------------------------------------------------------------
(* Two-player training runs at the stack of the tests that load nothing:
   what becomes of the file at save_path *)

TrainWithoutLoad ==
    \E iterations \in 0 .. MaxIterations : \E stack \in {TestStack} :
    \E num_threads \in 0 .. MaxThreads : \E hardware_threads \in 0 .. MaxThreads :
    \E save_filename \in {"", "save"} : \E checkpoint_interval \in 0 .. MaxInterval :
        /\ save_filename = "" => checkpoint_interval = 0
        /\ TrainStart(iterations, 2, stack, num_threads, hardware_threads,
                      save_filename, checkpoint_interval, "")

NextSaves ==
    \/ Store("save")
    \/ TrainWithoutLoad
    \/ \E t \in Threads :
        \/ TraversalStep(t)
        \/ CountIteration(t)
        \/ SavePeriodic(t)
        \/ RenamePeriodic(t)
    \/ Return
    \/ SaveFinal
    \/ RenameFinal

SpecSaves == InitCtor /\ [][NextSaves]_vars

----------------------------------------------------------------------------
(* Vocabulary of the properties *)

Unfolded == {i \in Seats(num_players) : ~player_folded[i]}
AbleToAct == {i \in Unfolded : ~player_all_in[i]}

\* The last call was accepted, so the step that led here applied an action
\* of the seat that was current_player_index before it.
Accepted == outcome = "ok"

\* No call on this object has thrown: every call so far was accepted (or
\* ignored because the hand was over).
NoThrow == outcome # "threw"

----------------------------------------------------------------------------
\* C1: in every state reached from the constructor by accepted apply_action
\* calls, if is_terminal() is false then current_player_index is a seat of
\* the table whose player is neither folded nor all-in.
C1_CurrentPlayerCanAct ==
    (NoThrow /\ ~is_terminal(State)) =>
        /\ current_player_index \in Seats(num_players)
        /\ ~player_folded[current_player_index]
        /\ ~player_all_in[current_player_index]

\* C2: when an accepted action closes the betting round on Preflop, Flop or
\* Turn and two or more players remain unfolded, all of them all-in, the
\* state after the call is terminal with street SHOWDOWN.
C2_AllInCloseIsShowdown ==
    [][ ( /\ outcome' = "ok"
          /\ current_street \in {PREFLOP, FLOP, TURN}
          /\ (current_street' # current_street \/ is_game_over')
          /\ Cardinality({i \in Seats(num_players) : ~player_folded'[i]}) >= 2
          /\ \A i \in Seats(num_players) : ~player_folded'[i] => player_all_in'[i] )
        => (is_game_over' /\ current_street' = SHOWDOWN) ]_vars

\* The seat that acts first after the flop, turn or river is dealt, as the
\* specification has it: the button heads-up, otherwise the first unfolded
\* seat that is not all-in from (button + 1) mod N on.
SpecFirstPostflop(n, button, folded, all_in) ==
    IF n = 2 THEN button
    ELSE LET CanAct == {i \in Seats(n) : ~folded[i] /\ ~all_in[i]}
         IN  FirstSeatFrom(n, (button + 1) % n, CanAct)

\* C3: whenever a betting round closes and the street advances to Flop,
\* Turn or River with a player left to act, the first player to act is the
\* button heads-up and, with three or more players, the first unfolded seat
\* that is not all-in at or after (button + 1) mod N.
C3_FirstPostflopActor ==
    [][ ( /\ outcome' = "ok"
          /\ current_street' # current_street
          /\ current_street' \in {FLOP, TURN, RIVER}
          /\ \E i \in Seats(num_players) : ~player_folded'[i] /\ ~player_all_in'[i] )
        => current_player_index' =
              SpecFirstPostflop(num_players, button_position, player_folded', player_all_in') ]_vars

----------------------------------------------------------------------------
\* The BET/RAISE calls the seat to act can make in the current state.
BetRaiseInputs ==
    {[type |-> ty, amount |-> a, player_index |-> current_player_index] :
        ty \in {"BET", "RAISE"}, a \in Amounts(current_player_index)}

\* The action does not commit the whole stack of its player.
NotAllIn(a) ==
    a.amount - bets_this_round[a.player_index] < player_stacks[a.player_index]

\* The raise increment and the minimum increment as the claim words them.
ClaimedIncrement(a) ==
    a.amount - (bets_this_round[a.player_index] + get_amount_to_call(State, a.player_index))

ClaimedMinIncrement == Max(last_raise_size, BIG_BLIND_AMOUNT)

HeadsUpInitial ==
    /\ outcome = "constructed"
    /\ num_players = 2
    /\ initial_stack = TestStack
    /\ ante_size = 0
    /\ button_position = 0

RaiseTo(total, p) == [type |-> "RAISE", amount |-> total, player_index |-> p]

\* Raise to 3 is rejected and Raise to 4 accepted from the heads-up initial
\* state, leaving last_raise_size = 2.
HeadsUpMinRaise ==
    HeadsUpInitial =>
        /\ apply_action(State, RaiseTo(3, 0)).outcome = "threw"
        /\ apply_action(State, RaiseTo(4, 0)).outcome = "ok"
        /\ apply_action(State, RaiseTo(4, 0)).state.last_raise_size = 2

\* C4 as stated: apply_action throws on every BET/RAISE of the seat to act
\* that is not all-in and whose increment total - (bets_this_round[p] +
\* amount_to_call(p)) is below max(last_raise_size, big blind), and accepts
\* every BET/RAISE that is not all-in and whose increment meets it.
C4_MinRaiseAsStated ==
    /\ (NoThrow /\ ~is_game_over /\ current_player_index \in Seats(num_players)) =>
          \A a \in BetRaiseInputs :
             NotAllIn(a) =>
                ((apply_action(State, a).outcome = "threw")
                    <=> (ClaimedIncrement(a) < ClaimedMinIncrement))
    /\ HeadsUpMinRaise

\* C4 amended: every such BET/RAISE below the minimum increment throws; every
\* RAISE, and every BET made while amount_to_call(p) = 0, that is not all-in
\* and meets the minimum increment is accepted (a BET facing a bet throws
\* whatever its size); Raise to 3 / Raise to 4 from the heads-up initial state
\* are rejected / accepted with last_raise_size = 2.
C4_MinRaise ==
    /\ (NoThrow /\ ~is_game_over /\ current_player_index \in Seats(num_players)) =>
          \A a \in BetRaiseInputs :
             NotAllIn(a) =>
                /\ ClaimedIncrement(a) < ClaimedMinIncrement
                      => apply_action(State, a).outcome = "threw"
                /\ ( /\ ClaimedIncrement(a) >= ClaimedMinIncrement
                     /\ (a.type = "RAISE" \/ get_amount_to_call(State, a.player_index) = 0) )
                      => apply_action(State, a).outcome = "ok"
                /\ ( /\ a.type = "BET"
                     /\ get_amount_to_call(State, a.player_index) > 0 )
                      => apply_action(State, a).outcome = "threw"
    /\ HeadsUpMinRaise

\* The heads-up state after the accepted Raise to 4.
C4_Witness ==
    /\ Accepted
    /\ initial_stack = TestStack
    /\ current_street = PREFLOP
    /\ raise_count = 1
    /\ bets_this_round = (0 :> 4 @@ 1 :> 2)
    /\ last_raise_size = 2
    /\ ~player_all_in[0]

----------------------------------------------------------------------------
SumContributions == SumTo(player_contributions, num_players)
SumBets == SumTo(bets_this_round, num_players)

\* C5 as stated: in every reachable state the sum of all players'
\* contributions equals pot plus the sum of bets_this_round.
C5_PotPlusBetsAsStated == SumContributions = pot_size + SumBets

\* C5 amended: in every reachable state the sum of all players'
\* contributions equals pot alone, the chips of bets_this_round being part of
\* pot already; it equals pot plus the sum of bets_this_round exactly in the
\* states where every bets_this_round entry is 0.
C5_PotHoldsBets ==
    /\ SumContributions = pot_size
    /\ SumBets <= pot_size
    /\ (SumContributions = pot_size + SumBets) <=> (SumBets = 0)

\* A state in the middle of a betting round, after a bet and a call, with
\* chips both in bets_this_round and from an earlier street in the pot.
C5_Witness ==
    /\ Accepted
    /\ current_street = FLOP
    /\ SumBets > 0
    /\ pot_size > SumBets
    /\ raise_count > 0

\* C6: in every reachable state, for every player i, stack[i] >= 0 and
\* contribution[i] = initial_stack - stack[i].
C6_StacksAndContributions ==
    \A i \in Seats(num_players) :
        /\ player_stacks[i] >= 0
        /\ player_contributions[i] = initial_stack - player_stacks[i]

\* A state reached through antes, blinds and a call that put its player
\* all-in with the whole initial stack contributed, while another player,
\* who paid the ante and a blind, still has chips.
C6_Witness ==
    /\ Accepted
    /\ ante_size > 0
    /\ actions_this_round > 0
    /\ \E i \in Seats(num_players) :
          /\ player_all_in[i]
          /\ player_acted_this_sequence[i]
          /\ player_contributions[i] = initial_stack
    /\ \E j \in Seats(num_players) :
          /\ ~player_all_in[j]
          /\ ~player_folded[j]
          /\ player_stacks[j] > 0
          /\ player_contributions[j] >= ante_size + SMALL_BLIND_AMOUNT

----------------------------------------------------------------------------
\* The seats of the blinds and of the first actor as the claim places them.
ClaimedSb == IF num_players = 2 THEN button_position
             ELSE (button_position + 1) % num_players
ClaimedBb == IF num_players = 2 THEN 1 - button_position
             ELSE (button_position + 2) % num_players
ClaimedFirst == IF num_players = 2 THEN button_position
                ELSE (button_position + 3) % num_players

\* What a seat has left once the ante is paid.
AfterAnte == initial_stack - Min(ante_size, initial_stack)

\* C7: the constructor places the blinds and the first actor by the button:
\* heads-up the button posts the small blind and acts first and the other
\* seat posts the big blind; with N >= 3, seats (button+1) mod N and
\* (button+2) mod N post the blinds and seat (button+3) mod N acts first,
\* seats already all-in being skipped; with ante 0 and stacks of 100 the pot
\* is 3, the blind seats hold 99 and 98, and amount_to_call is 1 for the small
\* blind, 0 for the big blind and 2 for every other seat.
C7_ConstructorBlinds ==
    outcome = "constructed" =>
        /\ current_street = PREFLOP
        /\ \A i \in Seats(num_players) :
              bets_this_round[i] =
                 IF i = ClaimedSb THEN Min(SMALL_BLIND_AMOUNT, AfterAnte)
                 ELSE IF i = ClaimedBb THEN Min(BIG_BLIND_AMOUNT, AfterAnte)
                 ELSE 0
        /\ (\E i \in Seats(num_players) : ~player_all_in[i]) =>
              /\ ~is_game_over
              /\ current_player_index \in Seats(num_players)
              /\ ~player_all_in[current_player_index]
              /\ \A k \in 0 .. (num_players - 1) :
                    (ClaimedFirst + k) % num_players = current_player_index
                       => \A j \in 0 .. (k - 1) :
                             player_all_in[(ClaimedFirst + j) % num_players]
        /\ (ante_size = 0 /\ initial_stack = TestStack) =>
              /\ pot_size = 3
              /\ current_player_index = ClaimedFirst
              /\ \A i \in Seats(num_players) :
                    /\ player_stacks[i] =
                          IF i = ClaimedSb THEN 99 ELSE IF i = ClaimedBb THEN 98 ELSE 100
                    /\ get_amount_to_call(State, i) =
                          IF i = ClaimedSb THEN 1 ELSE IF i = ClaimedBb THEN 0 ELSE 2

\* The six-handed table GameState(6, 100, 0, 0) right after construction.
C7_Witness ==
    /\ outcome = "constructed"
    /\ num_players = 6
    /\ initial_stack = TestStack
    /\ ante_size = 0
    /\ button_position = 0
    /\ current_player_index = 3
    /\ pot_size = 3
    /\ bets_this_round[1] = 1
    /\ bets_this_round[2] = 2

----------------------------------------------------------------------------
\* The chips the players other than t have contributed.
OthersContributions(n, contributions, t) ==
    SumTo([j \in Seats(n) |-> IF j = t THEN 0 ELSE contributions[j]], n)

FoldBy(p) == [type |-> "FOLD", amount |-> 0, player_index |-> p]

\* Heads-up small-blind fold from the initial state: terminal, stacks
\* untouched, payoff -1 for seat 0 and +1 for seat 1.
HeadsUpSbFold ==
    HeadsUpInitial =>
        LET r == apply_action(State, FoldBy(0))
        IN  /\ r.outcome = "ok"
            /\ is_terminal(r.state)
            /\ r.state.player_stacks = player_stacks
            /\ FoldPayoff(2, r.state.player_contributions, r.state.player_folded, 0) = -1
            /\ FoldPayoff(2, r.state.player_contributions, r.state.player_folded, 1) = 1

\* C8: as soon as a Fold leaves exactly one unfolded player the state is
\* terminal, no stack changes, and the settled payoffs are the sum of all
\* other players' contributions for the remaining player and minus the own
\* contribution for each folded player (heads-up small-blind fold from the
\* initial state: -1 for seat 0, +1 for seat 1).
C8_FoldToOne ==
    /\ [][ ( /\ outcome' = "ok"
             /\ player_folded' # player_folded
             /\ Cardinality({i \in Seats(num_players) : ~player_folded'[i]}) = 1 )
           => ( /\ is_game_over'
                /\ current_player_index' = -1
                /\ player_stacks' = player_stacks
                /\ \A t \in Seats(num_players) :
                      FoldPayoff(num_players, player_contributions', player_folded', t) =
                         IF player_folded'[t]
                         THEN 0 - player_contributions'[t]
                         ELSE OthersContributions(num_players, player_contributions', t) ) ]_vars
    /\ [](Cardinality(Unfolded) = 1 => is_terminal(State))
    /\ []HeadsUpSbFold

\* A three-handed hand that two folds have ended.
C8_Witness ==
    /\ Accepted
    /\ num_players = 3
    /\ Cardinality(Unfolded) = 1
    /\ is_game_over
    /\ \E i \in Seats(num_players) : player_folded[i] /\ player_contributions[i] > ante_size

----------------------------------------------------------------------------
BigBlindSeat == BbIndex(num_players, button_position)

CheckBy(p) == [type |-> "CHECK", amount |-> 0, player_index |-> p]

\* An accepted action ends the preflop round of a hand nobody has raised,
\* with two or more players left.
UnraisedPreflopCloses ==
    /\ outcome' = "ok"
    /\ current_street = PREFLOP
    /\ current_street' # PREFLOP
    /\ raise_count' = 0
    /\ Cardinality({i \in Seats(num_players) : ~player_folded'[i]}) >= 2

\* On an unraised preflop street the big blind's Check is accepted and moves
\* the street to FLOP.
BigBlindCheckCloses ==
    ( /\ NoThrow
      /\ ~is_game_over
      /\ current_street = PREFLOP
      /\ raise_count = 0
      /\ current_player_index = BigBlindSeat )
    => LET r == apply_action(State, CheckBy(BigBlindSeat))
       IN  r.outcome = "ok" /\ r.state.current_street = FLOP

\* C9 as stated: preflop, as long as no voluntary raise has occurred, the
\* betting round never closes before the big blind has acted (the action
\* that closes it is the big blind's), whatever the number of players and the
\* folds and calls of the others; the big blind's Check closes the round and
\* the street becomes Flop.
C9_BigBlindOptionAsStated ==
    /\ [][ UnraisedPreflopCloses => current_player_index = BigBlindSeat ]_vars
    /\ []BigBlindCheckCloses

\* C9 amended: the same, provided the big blind is not all-in from posting
\* its blind (an all-in big blind cannot act, and the calls of the others
\* close the round without it).
C9_BigBlindOption ==
    /\ [][ (UnraisedPreflopCloses /\ ~player_all_in[BigBlindSeat])
             => current_player_index = BigBlindSeat ]_vars
    /\ []BigBlindCheckCloses

\* Three-handed flop reached without a raise: one seat folded, one called,
\* the big blind closed the round.
C9_Witness ==
    /\ Accepted
    /\ num_players = 3
    /\ current_street = FLOP
    /\ raise_count = 0
    /\ actions_this_round = 0
    /\ Cardinality(Unfolded) = 2
    /\ ~player_folded[BigBlindSeat]
    /\ ~player_all_in[BigBlindSeat]

----------------------------------------------------------------------------
CallBy(p) == [type |-> "CALL", amount |-> 0, player_index |-> p]

\* An accepted action closes the betting round (the street moves on or the
\* hand ends) with two or more players left.
ClosesRound ==
    /\ outcome' = "ok"
    /\ (current_street' # current_street \/ is_game_over')
    /\ Cardinality({i \in Seats(num_players) : ~player_folded'[i]}) >= 2

\* The closing action was a call that put chips in.
ClosedByCall ==
    /\ ClosesRound
    /\ raise_count' = raise_count
    /\ ~player_folded'[current_player_index]
    /\ player_stacks'[current_player_index] < player_stacks[current_player_index]

\* When a round closes, every unfolded seat that is not all-in has acted
\* since the last Bet/Raise (the acted flags are cleared by it) and holds the
\* maximum bet: the others before the closing action, the closing seat by it.
ClosedOnlyWhenAllMatched ==
    ClosesRound =>
        /\ \A i \in Seats(num_players) \ {current_player_index} :
              (~player_folded[i] /\ ~player_all_in[i]) =>
                 /\ player_acted_this_sequence[i]
                 /\ bets_this_round[i] = MaxBet(State)
        /\ ( /\ ~player_folded'[current_player_index]
             /\ ~player_all_in'[current_player_index] ) =>
              bets_this_round[current_player_index]
                 + (player_stacks[current_player_index] - player_stacks'[current_player_index])
                   = MaxBet(State)

\* SB limp, BB raise to 8, SB call from the heads-up initial state: street
\* Flop, bets [0,0], pot 16, stacks 92/92; the raise alone leaves the round
\* open with seat 0 to act.
HeadsUpRaiseCall ==
    HeadsUpInitial =>
        LET s1 == apply_action(State, CallBy(0)).state
            s2 == apply_action(s1, RaiseTo(8, 1)).state
            r3 == apply_action(s2, CallBy(0))
        IN  /\ s2.current_street = PREFLOP
            /\ s2.current_player_index = 0
            /\ r3.outcome = "ok"
            /\ r3.state.current_street = FLOP
            /\ r3.state.bets_this_round = (0 :> 0 @@ 1 :> 0)
            /\ r3.state.pot_size = 16
            /\ r3.state.player_stacks = (0 :> 92 @@ 1 :> 92)

\* C10 as stated: a successful Bet or Raise reopens the action: the round
\* does not close until every other unfolded, non-all-in player has acted
\* after it and has bets_this_round equal to the maximum bet; when the last
\* such player calls, the round closes, bets_this_round is reset to 0 for all
\* players and the pot holds all chips committed.
C10_ReopenAsStated ==
    /\ [][ ClosedOnlyWhenAllMatched ]_vars
    /\ [][ ClosedByCall =>
             /\ \A i \in Seats(num_players) : bets_this_round'[i] = 0
             /\ pot_size' = SumTo(player_contributions', num_players) ]_vars
    /\ []HeadsUpRaiseCall

\* C10 amended: the same, except that bets_this_round is reset to 0 only
\* when the closing call comes on Preflop, Flop or Turn (the street then moves
\* to a later one); a closing call on the River ends the hand and leaves
\* bets_this_round as the call made them.
C10_Reopen ==
    /\ [][ ClosedOnlyWhenAllMatched ]_vars
    /\ [][ ClosedByCall =>
             /\ pot_size' = SumTo(player_contributions', num_players)
             /\ current_street \in {PREFLOP, FLOP, TURN} =>
                   /\ current_street' > current_street
                   /\ \A i \in Seats(num_players) : bets_this_round'[i] = 0
             /\ current_street = RIVER =>
                   /\ is_game_over'
                   /\ \A i \in Seats(num_players) :
                         bets_this_round'[i] =
                            bets_this_round[i] + (player_stacks[i] - player_stacks'[i])
                   /\ \E i \in Seats(num_players) : bets_this_round'[i] > 0 ]_vars
    /\ []HeadsUpRaiseCall

\* The flop after SB limp, BB raise to 8 and SB call.
C10_Witness ==
    /\ Accepted
    /\ initial_stack = TestStack
    /\ current_street = FLOP
    /\ raise_count = 1
    /\ pot_size = 16
    /\ player_stacks = (0 :> 92 @@ 1 :> 92)
    /\ bets_this_round = (0 :> 0 @@ 1 :> 0)

----------------------------------------------------------------------------
\* The flags of a seat never go back from true to false.
FlagsNeverCleared ==
    \A i \in Seats(num_players) :
        /\ player_folded[i] => player_folded'[i]
        /\ player_all_in[i] => player_all_in'[i]

\* No seat is both folded and all-in.
NeverFoldedAndAllIn ==
    \A i \in Seats(num_players) : ~(player_folded[i] /\ player_all_in[i])

\* C11: along any sequence of apply_action calls, folded[i] and all_in[i]
\* never change from true to false, and no player is ever both folded and
\* all-in.
C11_FlagsMonotoneExclusive ==
    /\ [][FlagsNeverCleared]_vars
    /\ []NeverFoldedAndAllIn

\* C12: along any sequence of apply_action calls the street never moves to
\* an earlier value in the order Preflop < Flop < Turn < River < Showdown.
C12_StreetMonotone == [][current_street' >= current_street]_vars

\* The hand has walked through every street to the showdown.
C12_Witness ==
    /\ Accepted
    /\ current_street = SHOWDOWN
    /\ is_game_over
    /\ Cardinality(Unfolded) >= 2
    /\ \E i \in Seats(num_players) : ~player_all_in[i]

----------------------------------------------------------------------------
\* C13: for the heads-up initial state (2 players, stack 100, ante 0,
\* button 0), get_possible_action_specs returns exactly three specs: Call,
\* Raise 3bb and Raise 4bb, with no Fold.
C13_HeadsUpOpeningSpecs ==
    HeadsUpInitial =>
        get_possible_action_specs(State) =
            {PlainSpec("CALL"), ActionSpec("RAISE", 30, "BB"), ActionSpec("RAISE", 40, "BB")}

----------------------------------------------------------------------------
\* The seat to act is on a postflop street, faces no bet and has chips.
UnopenedPostflop ==
    /\ ~is_game_over
    /\ current_player_index \in Seats(num_players)
    /\ current_street \in {FLOP, TURN, RIVER}
    /\ get_amount_to_call(State, current_player_index) = 0
    /\ player_stacks[current_player_index] > 0

UnopenedPostflopSpecs ==
    {PlainSpec("CHECK"),
     ActionSpec("BET", 330, "PCT_POT"), ActionSpec("BET", 500, "PCT_POT"),
     ActionSpec("BET", 750, "PCT_POT"), ActionSpec("BET", 1000, "PCT_POT"),
     ActionSpec("BET", 1330, "PCT_POT"),
     PlainSpec("ALL_IN")}

\* C14: in any postflop state where the player to act faces no bet and has
\* a positive stack, get_possible_action_specs returns exactly Check, Bet
\* 33%, 50%, 75%, 100% and 133% of pot, and AllIn (7 specs).
C14_UnopenedPostflopSpecs ==
    UnopenedPostflop =>
        /\ get_possible_action_specs(State) = UnopenedPostflopSpecs
        /\ Cardinality(get_possible_action_specs(State)) = 7

\* The heads-up flop after a limp and a check: pot 4, stacks 98.
C14_Witness ==
    /\ Accepted
    /\ UnopenedPostflop
    /\ initial_stack = TestStack
    /\ current_street = FLOP
    /\ pot_size = 4
    /\ player_stacks = (0 :> 98 @@ 1 :> 98)
    /\ actions_this_round = 0

----------------------------------------------------------------------------
BettingSpecs(s) ==
    {spec \in get_possible_action_specs(s) : spec.type \in {"BET", "RAISE", "ALL_IN"}}

\* C15: for every state, no two specs returned by get_possible_action_specs
\* have the same chip amount under get_action_amount, and a Bet/Raise spec
\* whose amount equals the player's full commitment (stack +
\* bets_this_round) is never returned: that amount is represented only by
\* AllIn.
C15_UniqueAmounts ==
    (~is_game_over /\ current_player_index \in Seats(num_players)) =>
        /\ \A x, y \in BettingSpecs(State) :
              x # y => get_action_amount(x, State) # get_action_amount(y, State)
        /\ \A x \in BettingSpecs(State) :
              x.type \in {"BET", "RAISE"} =>
                 get_action_amount(x, State) #
                    player_stacks[current_player_index] + bets_this_round[current_player_index]

----------------------------------------------------------------------------
\* The small open the claim gives for an effective stack in big blinds.
ClaimedSmallOpen(effective_bb) ==
    IF effective_bb < 25 THEN 20 ELSE IF effective_bb < 35 THEN 21 ELSE 22

\* C16: in a preflop state with 3 or more players where no player has
\* voluntarily acted, the first actor outside the small blind is offered
\* raises of 2.5bb and 3.0bb plus a small open of 2.0bb when the effective
\* stack is under 25bb, 2.1bb when it is 25 to 35bb and 2.2bb when it is 35bb
\* or more (e.g. the UTG seat of a fresh 6-player, 100-chip game).
C16_RfiOpenSizes ==
    ( /\ outcome = "constructed"
      /\ num_players >= 3
      /\ ~is_game_over
      /\ current_player_index # SbIndex(num_players, button_position)
      /\ player_stacks[current_player_index]
            > get_amount_to_call(State, current_player_index) )
    => {ActionSpec("RAISE",
                   ClaimedSmallOpen(get_effective_stack(State, current_player_index)
                                       \div BIG_BLIND_AMOUNT), "BB"),
        ActionSpec("RAISE", 25, "BB"),
        ActionSpec("RAISE", 30, "BB")} \subseteq get_possible_action_specs(State)

----------------------------------------------------------------------------
\* Raise specs probed: the sizings of the abstraction and a few more, in the
\* three units a Raise has a sizing rule for.
RaiseSpecs ==
    {ActionSpec("RAISE", v, u) :
        v \in {20, 22, 25, 30, 40, 330, 1000},
        u \in {"BB", "PCT_POT", "MULTIPLIER_X"}}

FullCommitment ==
    player_stacks[current_player_index] + bets_this_round[current_player_index]

\* Raise 2.5bb of the UTG seat of a fresh 6-player, 100-chip game: 5 chips.
SixMaxUtgRaise ==
    LET s == GameState(6, TestStack, 0, 0)
    IN  /\ get_amount_to_call(s, s.current_player_index) = 2
        /\ get_action_amount(ActionSpec("RAISE", 25, "BB"), s) = 5

----------------------------------------------------------------------------
Multipliers == {22, 25, 30, 40}

\* reference_bet: the total of the last bet or raise the seat to act faces,
\* as far as its stack can match it.
ReferenceBet == Min(MaxBet(State), FullCommitment)

\* round_half_up(v x n) for v given in tenths.
RoundHalfUp(value10, n) == (value10 * n + 5) \div 10

HeadsUpFacingOpenTo6 ==
    /\ Accepted
    /\ ~is_game_over
    /\ initial_stack = TestStack
    /\ current_street = PREFLOP
    /\ current_player_index = 1
    /\ bets_this_round = (0 :> 6 @@ 1 :> 2)

\* C18 as stated: for a Raise spec with unit MultiplierX and value v the
\* target before the minimum-raise floor and the stack cap is
\* (bets_this_round[p] + amount_to_call) + round_half_up(v x reference_bet)
\* (heads-up big blind facing an open to 6 with v = 3: 6 + 18 = 24).
C18_MultiplierTargetAsStated ==
    /\ (~is_game_over /\ current_player_index \in Seats(num_players)) =>
          \A v \in Multipliers :
             RaiseTarget(State, ActionSpec("RAISE", v, "MULTIPLIER_X")) =
                (bets_this_round[current_player_index]
                    + get_amount_to_call(State, current_player_index))
                  + RoundHalfUp(v, ReferenceBet)
    /\ HeadsUpFacingOpenTo6 =>
          RaiseTarget(State, ActionSpec("RAISE", 30, "MULTIPLIER_X")) = 24

\* C18 amended: the target is round_half_up(v x reference_bet) as a total,
\* not on top of the call, and at least one chip more than bets_this_round[p]
\* + amount_to_call; reference_bet equals bets_this_round[p] + amount_to_call
\* (heads-up big blind facing an open to 6 with v = 3: 18).
C18_MultiplierTarget ==
    /\ (~is_game_over /\ current_player_index \in Seats(num_players)) =>
          /\ ReferenceBet = bets_this_round[current_player_index]
                               + get_amount_to_call(State, current_player_index)
          /\ \A v \in Multipliers :
                RaiseTarget(State, ActionSpec("RAISE", v, "MULTIPLIER_X")) =
                   Max(RoundHalfUp(v, ReferenceBet), ReferenceBet + 1)
    /\ HeadsUpFacingOpenTo6 =>
          RaiseTarget(State, ActionSpec("RAISE", 30, "MULTIPLIER_X")) = 18

\* The heads-up big blind facing the open to 6, where 3x gives a total of 18
\* and 2.2x a total of 13.
C18_Witness ==
    /\ HeadsUpFacingOpenTo6
    /\ ReferenceBet = 6
    /\ RaiseTarget(State, ActionSpec("RAISE", 30, "MULTIPLIER_X")) = 18
    /\ RaiseTarget(State, ActionSpec("RAISE", 22, "MULTIPLIER_X")) = 13

----------------------------------------------------------------------------
\* The history string as stated: s/b/ for the posted blinds, then every
\* applied action's token followed by a slash.
RECURSIVE ClaimedTokens(_)
ClaimedTokens(history) ==
    IF history = <<>> THEN <<>>
    ELSE ActionToken(Head(history)) \o <<"/">> \o ClaimedTokens(Tail(history))

ClaimedHistory(history) == <<"s", "/", "b", "/">> \o ClaimedTokens(history)

\* A raise-first-in spot of the traversal: button on seat 0, nothing but
\* folds so far, and the seat to act is one main extracts a range for.
RfiSpot ==
    LET s == current_state.state
    IN  /\ current_state.outcome \in {"constructed", "ok"}
        /\ s.button_position = 0
        /\ ~s.is_game_over
        /\ s.current_street = PREFLOP
        /\ \A i \in DOMAIN current_state.action_history :
               current_state.action_history[i].type = "FOLD"
        /\ s.current_player_index \in position_map(s.num_players)

\* C19: the history string of a GameState is s/b/ followed by the token of
\* every applied action, each followed by a slash; and at a raise-first-in
\* spot the key main builds for the seat to act (history s/b/ plus one f/ per
\* earlier seat) is the key of the InfoSet the solver builds for that state,
\* whatever hand the seat holds.
C19_HistoryStringAndRfiKey ==
    LET s == current_state.state
        p == s.current_player_index
    IN  /\ get_history_string(current_state.action_history)
               = ClaimedHistory(current_state.action_history)
        /\ RfiSpot =>
               \A hand \in Hands :
                   InfoSet(hand, rfi_history(s.num_players, p), PREFLOP, <<>>, p).key
                       = InfoSet(hand,
                                 get_history_string(current_state.action_history),
                                 s.current_street, <<>>, p).key

----------------------------------------------------------------------------
\* One permutation of the suits applied to every card of a sequence.
SuitPermutations == Permutations(Suits)

PermuteSuits(perm, cards) ==
    [i \in DOMAIN cards |-> <<cards[i][1], perm[cards[i][2]]>>]

\* C20: for every InfoSet, whatever its player, street and history, the key
\* generated after one permutation of the four suits is applied to all its
\* hole cards and all its board cards is the key it has.
C20_SuitPermutationKey ==
    \A perm \in SuitPermutations :
        generate_key(info_set.player_index,
                     PermuteSuits(perm, info_set.private_hand),
                     info_set.action_history,
                     info_set.street,
                     PermuteSuits(perm, info_set.board))
            = info_set.key

----------------------------------------------------------------------------
\* C21: for a regret vector of length k > 0 regret matching returns
\* max(0, r[i]) / S in every entry when S, the sum of the positive parts, is
\* positive, and 1/k in every entry otherwise; every entry is >= 0 and the
\* entries sum to 1; for k = 0 it returns the empty vector.
C21_RegretMatching ==
    LET k == Len(regrets)
        S == RatSum([i \in DOMAIN regrets |-> RatMax(Zero, regrets[i])])
    IN  /\ Len(strategy) = k
        /\ k = 0 => strategy = <<>>
        /\ k > 0 =>
              /\ \A i \in 1 .. k :
                    /\ ~RatLess(strategy[i], Zero)
                    /\ strategy[i] = IF RatLess(Zero, S)
                                     THEN RatDiv(RatMax(Zero, regrets[i]), S)
                                     ELSE Rat(1, k)
              /\ RatSum(strategy) = One

\* Regret matching has run on a vector without a positive regret, the test's
\* third case scaled down, and returned the uniform strategy.
C21_Witness ==
    /\ regrets = <<Rat(-2, 1), Rat(0, 1), Rat(-1, 1)>>
    /\ strategy = <<Rat(1, 3), Rat(1, 3), Rat(1, 3)>>

----------------------------------------------------------------------------
(* Properties of the solver: nodes, checkpoints, training *)

\* C22: for every node of the table, at every point of a training run
\* (resumed from any checkpoint file, two threads interleaved), the
\* average strategy has only non-negative entries that sum to 1: it is
\* strategy_sum[i] / sum of strategy_sum when that sum is positive, uniform
\* otherwise, and no entry of strategy_sum is negative.
C22_AverageStrategy ==
    \A key \in DOMAIN node_map :
        LET node == node_map[key]
            sigma == get_average_strategy(node)
            total == RatSum(node.strategy_sum)
        IN  /\ Len(sigma) = Len(node.strategy_sum)
            /\ \A i \in DOMAIN node.strategy_sum :
                /\ ~RatLess(node.strategy_sum[i], Zero)
                /\ ~RatLess(sigma[i], Zero)
                /\ sigma[i] = IF RatLess(Zero, total)
                              THEN RatDiv(node.strategy_sum[i], total)
                              ELSE Rat(1, Len(node.strategy_sum))
            /\ RatSum(sigma) = One

\* A resumed run has returned; it updated a node a second time, under a
\* strategy that was not uniform.
C22_Witness ==
    /\ train_call.pc = "returned"
    /\ completed_iterations = 2
    /\ \E key \in DOMAIN node_map :
        /\ node_map[key].visit_count = 2
        /\ \E i \in DOMAIN node_map[key].strategy_sum :
            get_average_strategy(node_map[key])[i]
                # Rat(1, Len(node_map[key].strategy_sum))

\* The final save of train has just written its temporary file.
FinalSaveWritten == train_call.pc = "final rename"

\* C23: save_checkpoint followed by load_checkpoint into a fresh solver
\* restores the same keys with, per node, equal regret_sum, strategy_sum and
\* visit_count, and sets completed_iterations and total_nodes_created to the
\* saved values (stated of the file the final save of a run has written).
C23_SaveLoadRoundTrip ==
    FinalSaveWritten =>
        LET loaded == load_checkpoint(CFREngine, files["save.final.tmp"])
        IN  /\ loaded.result = completed_iterations
            /\ DOMAIN loaded.engine.node_map = DOMAIN node_map
            /\ \A key \in DOMAIN node_map :
                /\ loaded.engine.node_map[key].regret_sum = node_map[key].regret_sum
                /\ loaded.engine.node_map[key].strategy_sum = node_map[key].strategy_sum
                /\ loaded.engine.node_map[key].visit_count = node_map[key].visit_count
            /\ loaded.engine.completed_iterations = completed_iterations
            /\ loaded.engine.total_nodes_created = total_nodes_created

\* train has called load_checkpoint on the file named "load".
LoadCalled == train_call.pc # "idle" /\ train_call.load_filename = "load"

\* The recorded node count of a document disagrees with its nodes.
CountInconsistent(doc) ==
    doc.node_map_is_object /\ doc.total_nodes_created # Len(doc.node_map)

\* C24: load_checkpoint returns -1 for every checkpoint whose version is not
\* the current one, that is truncated or unparsable, or whose
\* total_nodes_created is inconsistent with the number of nodes in the file.
C24_LoadRejects ==
    LET file == files["load"]
    IN  /\ LoadCalled
        /\ \/ file.kind = "unparsable"
           \/ file.kind = "json" /\ file.doc.version # CHECKPOINT_VERSION_JSON
           \/ file.kind = "json" /\ CountInconsistent(file.doc)
        => train_call.loaded_iters = -1

\* The step is a call of train whose load_checkpoint fails.
LoadFails ==
    /\ train_call.pc = "idle"
    /\ train_call'.pc # "idle"
    /\ train_call'.load_filename # ""
    /\ train_call'.loaded_iters < 0

\* C25: whenever load_checkpoint fails, the node table, completed_iterations
\* and total_nodes_created are what they were before the call, and train
\* starts at iteration 0 with total_nodes_created equal to the table size.
C25_FailedLoadLeavesSolver ==
    [][LoadFails =>
        /\ node_map' = node_map
        /\ completed_iterations' = completed_iterations
        /\ total_nodes_created' = total_nodes_created
        /\ train_call'.starting_iteration = 0
        /\ total_nodes_created' = Cardinality(DOMAIN node_map')]_vars

\* The step is one of train and replaces the file at save_path.
Replaces == train_call.pc # "idle" /\ files'["save"] # files["save"]

\* The step is the rename of a periodic or of a final save, and the
\* temporary file it renames holds a whole document.
RenamesWritten ==
    \/ /\ \E t \in DOMAIN workers : workers[t].pc = "rename"
       /\ files["save.tmp"].kind = "json"
       /\ files'["save"] = files["save.tmp"]
    \/ /\ train_call.pc = "final rename"
       /\ files["save.final.tmp"] = JsonFile(CheckpointData(Engine))
       /\ files'["save"] = files["save.final.tmp"]

\* The step is thread t's, in the periodic save or in its rename, and leaves
\* the thread in its loop (or before the rename) and train running.
PeriodicSaveGoesOn(t) ==
    /\ t \in DOMAIN workers
    /\ workers[t].pc \in {"save", "rename"}
    /\ workers'[t] # workers[t]
    => /\ workers'[t].pc \in {"rename", "loop"}
       /\ workers[t].pc = "rename" => workers'[t].pc = "loop"
       /\ workers'[t].pc = "loop" /\ workers[t].pc = "save" => ~Replaces
       /\ train_call' = train_call

\* The step is the final save of train or its rename, and train goes on to
\* the rename or returns.
FinalSaveGoesOn ==
    /\ train_call.save_filename # ""
    /\ \/ train_call.pc = "running" /\ Joined
       \/ train_call.pc = "final rename"
    /\ train_call' # train_call
    => /\ train_call'.pc \in {"final rename", "returned"}
       /\ train_call.pc = "final rename" => train_call'.pc = "returned"
       /\ train_call'.pc = "returned" /\ train_call.pc = "running" => ~Replaces

\* C26: the file at save_path is only ever replaced by a rename of a
\* completely and successfully written temporary file; when the write of the
\* temporary file or the rename fails, the file at save_path stays as it
\* was, and the thread goes on with its iterations (train, with its return).
C26_AtomicSave ==
    [][/\ Replaces => RenamesWritten
       /\ \A t \in Threads : PeriodicSaveGoesOn(t)
       /\ FinalSaveGoesOn]_vars

\* A run of two iterations has returned: a periodic save left a partial
\* temporary file behind and did not touch save_path, where the final save
\* then put the checkpoint of the second iteration.
C26_Witness ==
    /\ train_call.pc = "returned"
    /\ files["save.tmp"] = Unparsable
    /\ files["save"] = JsonFile(CheckpointData(Engine))
    /\ completed_iterations = 2
    /\ files["save.final.tmp"] = Absent

\* The count train should end with.
ExpectedCount == Max(train_call.iterations, train_call.starting_iteration)

\* The iterations of the threads add up to what remains, the first threads
\* taking the remainder.
RECURSIVE IterationsOf(_)
IterationsOf(threads) ==
    IF threads = {} THEN 0
    ELSE LET t == CHOOSE t \in threads : TRUE
         IN  workers[t].iterations_for_thread + IterationsOf(threads \ {t})

SplitOverWorkers ==
    /\ IterationsOf(DOMAIN workers) = train_call.iterations - train_call.starting_iteration
    /\ \A t, u \in DOMAIN workers :
        t < u => /\ workers[t].iterations_for_thread >= workers[u].iterations_for_thread
                 /\ workers[t].iterations_for_thread - workers[u].iterations_for_thread <= 1

\* The call of train can go on: a thread has a step to take, or every thread
\* is through and train has its end to run.
CanGoOn ==
    \/ train_call.pc = "final rename"
    \/ /\ train_call.pc = "running"
       /\ \/ Joined
          \/ \E t \in DOMAIN workers :
                \/ workers[t].pc # "loop"
                \/ workers[t].i < workers[t].iterations_for_thread

\* C27: train terminates (a call that has not returned can go on, and every
\* thread has a bounded number of steps ahead), the remaining iterations are
\* split over the workers with the remainder going to the first ones,
\* nothing runs when the loaded count reaches iterations, and at the return
\* completed_iterations = max(iterations, loaded count).
C27_TrainTerminatesCounted ==
    /\ train_call.pc \notin {"idle", "returned"} => CanGoOn
    /\ train_call.pc = "running" => SplitOverWorkers
    /\ train_call.starting_iteration >= train_call.iterations /\ train_call.pc # "idle"
        => train_call.pc = "returned" /\ workers = <<>>
    /\ train_call.pc = "returned" => completed_iterations = ExpectedCount

\* C28: with save_path set and interval > 0, each time completed_iterations
\* reaches a multiple of interval a periodic checkpoint is saved: the thread
\* that counted goes on to save_checkpoint.
C28_PeriodicSaveAtEveryBoundary ==
    [][/\ train_call.pc = "running"
       /\ train_call.save_filename # ""
       /\ train_call.checkpoint_interval > 0
       /\ completed_iterations' = completed_iterations + 1
       /\ completed_iterations' % train_call.checkpoint_interval = 0
       => \E t \in DOMAIN workers : workers[t].pc = "count" /\ workers'[t].pc = "save"]_vars

\* The step is thread t's lookup of the node of its infoset key.
LooksUp(t) ==
    /\ t \in DOMAIN workers
    /\ workers[t].pc = "loop"
    /\ workers'[t].pc = "read"

\* C29: under any interleaving, a lookup leaves one node for its key in the
\* table (the node that was there, if there was one: every thread gets the
\* same node), the nodes other threads hold stay as they are while a key is
\* inserted, and total_nodes_created equals the number of keys in the table.
C29_OneNodePerKey ==
    [][\A t \in Threads : LooksUp(t) =>
        /\ workers'[t].info_set_key \in DOMAIN node_map'
        /\ \A key \in DOMAIN node_map :
            key \in DOMAIN node_map' /\ node_map'[key] = node_map[key]
        /\ \A u \in DOMAIN workers :
            workers[u].pc \in {"read", "update", "visit"}
                => workers[u].info_set_key \in DOMAIN node_map'
        /\ Cardinality(DOMAIN node_map') <= Cardinality(DOMAIN node_map) + 1
        /\ total_nodes_created' = Cardinality(DOMAIN node_map')]_vars

\* C30: a thread that fetched a node whose number of actions differs from
\* the number of legal actions at its call site does not go on to the
\* update of the node's regret_sum and strategy_sum.
C30_RefusesMismatchedNode ==
    \A t \in DOMAIN workers :
        workers[t].pc \in {"update", "visit"} =>
            workers[t].num_actions = Len(node_map[workers[t].info_set_key].regret_sum)

----------------------------------------------------------------------------
(* The actions the engine builds from the abstraction's specs *)

\* A conversion that makes a BET of every bet, raise and all-in.
ToActionAlwaysBet(s, spec) ==
    LET p == s.current_player_index
    IN  IF spec.type \in {"FOLD", "CHECK", "CALL"}
        THEN [type |-> spec.type, amount |-> 0, player_index |-> p]
        ELSE [type |-> "BET",
              amount |-> get_action_amount(spec, s),
              player_index |-> p]

\* The Action cfr_plus_recursive builds for one legal action: FOLD, CHECK and
\* CALL by name; every bet, raise and all-in as a BET when nothing is to call
\* and as a RAISE otherwise, to the total get_action_amount returns.
ToAction(s, spec) ==
    LET p == s.current_player_index
    IN  IF spec.type \in {"FOLD", "CHECK", "CALL"}
        THEN [type |-> spec.type, amount |-> 0, player_index |-> p]
        ELSE [type |-> IF get_amount_to_call(s, p) = 0 THEN "BET" ELSE "RAISE",
              amount |-> get_action_amount(spec, s),
              player_index |-> p]

\* next_state.apply_action(action) of the loop over the legal actions.
next_state(s, spec) == apply_action(s, ToAction(s, spec))

HasPlayerToAct == outcome # "threw" /\ ~is_terminal(State) /\ current_player_index >= 0

\* C31: in every reachable non-terminal state with a player to act, every
\* spec get_possible_action_specs returns, converted to an Action as the
\* engine converts it, is applied by apply_action without an exception.
C31_OfferedActionsAccepted ==
    HasPlayerToAct =>
        LET s == State
        IN  \A spec \in get_possible_action_specs(s) :
                next_state(s, spec).outcome = "ok"

\* A call reached a state in which a sized bet or raise and the all-in are
\* offered and applied.
C31_Witness ==
    /\ HasPlayerToAct
    /\ outcome = "ok"
    /\ LET s == State
       IN  /\ \E spec \in get_possible_action_specs(s) : spec.type \in {"BET", "RAISE"}
           /\ PlainSpec("ALL_IN") \in get_possible_action_specs(s)
           /\ \A spec \in get_possible_action_specs(s) : next_state(s, spec).outcome = "ok"
----------------------------------------------------------------------------
(* The payoff of a terminal state (CFREngine::cfr_plus_recursive, step 1) *)

\* std::sort of the pairs (contribution, player index) of the players that
\* did not fold.
RECURSIVE sorted_players(_, _)
sorted_players(contributions, players) ==
    IF players = {} THEN <<>>
    ELSE LET first == CHOOSE i \in players : \A j \in players :
                          \/ contributions[i] < contributions[j]
                          \/ contributions[i] = contributions[j] /\ i <= j
         IN  <<first>> \o sorted_players(contributions, players \ {first})

\* The players a pot segment goes to: the best rank among the eligible
\* players on a complete board (lower is better), every eligible player
\* otherwise.
current_winners(eligible, ranks, board_complete) ==
    IF board_complete
    THEN {i \in eligible : \A j \in eligible : ranks[i] <= ranks[j]}
    ELSE eligible

\* The loop over the contribution levels from the k-th sorted player on:
\* what the traversing player wins of the pot segments.
RECURSIVE total_winnings(_, _, _, _, _, _, _, _)
total_winnings(sorted, k, last_contribution_level, eligible, contributions, ranks, board_complete, traversing_player) ==
    IF k > Len(sorted) THEN Zero
    ELSE LET player_at_this_level == sorted[k]
             current_contribution_level == contributions[player_at_this_level]
             makes_pot == current_contribution_level > last_contribution_level /\ eligible # {}
             current_pot_size ==
                 (current_contribution_level - last_contribution_level) * Cardinality(eligible)
             winners == current_winners(eligible, ranks, board_complete)
             share == IF makes_pot /\ traversing_player \in winners
                      THEN Rat(current_pot_size, Cardinality(winners))
                      ELSE Zero
         IN  RatAdd(share,
                    total_winnings(sorted, k + 1,
                                   IF makes_pot THEN current_contribution_level
                                   ELSE last_contribution_level,
                                   eligible \ {player_at_this_level},
                                   contributions, ranks, board_complete, traversing_player))

\* final_payoff of a terminal state for one traversing player.
final_payoff(s, ranks, board_complete, traversing_player) ==
    LET contributions == s.player_contributions
        showdown_players_indices == ActivePlayers(s)
    IN  IF s.player_folded[traversing_player] \/ Cardinality(showdown_players_indices) = 1
        THEN Rat(FoldPayoff(s.num_players, contributions, s.player_folded, traversing_player), 1)
        ELSE IF Cardinality(showdown_players_indices) > 1
        THEN RatSub(total_winnings(sorted_players(contributions, showdown_players_indices),
                                   1, 0, showdown_players_indices, contributions,
                                   ranks, board_complete, traversing_player),
                    Rat(contributions[traversing_player], 1))
        ELSE Rat(0 - contributions[traversing_player], 1)

\* The ranks evaluate_7_card_hand may give the hands: two values, so that a
\* showdown has one winner or is a tie.
HandRanks == [Seats(num_players) -> {1, 2}]

\* The payoffs of the num_players traversals that end in state s.
Payoffs(s, ranks, board_complete) ==
    [i \in 1 .. s.num_players |-> final_payoff(s, ranks, board_complete, i - 1)]

ReachedTerminal == outcome = "ok" /\ is_terminal(State)

\* C32: at every terminal state apply_action reaches, whatever the hands are
\* worth and whether or not the board is complete, the payoffs computed for
\* the traversing players sum to zero.
C32_PayoffsSumToZero ==
    ReachedTerminal =>
        \A ranks \in HandRanks : \A board_complete \in BOOLEAN :
            RatSum(Payoffs(State, ranks, board_complete)) = Zero

----------------------------------------------------------------------------
(* Rejected calls of apply_action *)

\* C33: a call of apply_action that ends with an exception leaves the
\* GameState as it was before the call: what the action history holds, the
\* acted flags, the action counter, stacks, bets, pot and current player.
C33_RejectedCallChangesNothing ==
    [][outcome' = "threw" => State' = State]_vars

----------------------------------------------------------------------------
(* Chips in the pot *)

SumStacks == SumTo(player_stacks, num_players)

\* C34: in every reachable state the pot is the sum of all players'
\* contributions, posted and bet chips being in the pot at once, and the pot
\* plus the sum of all stacks is num_players x initial_stack.
C34_PotIsContributions ==
    /\ pot_size = SumContributions
    /\ pot_size + SumStacks = num_players * initial_stack

\* A flop reached after blinds and calls, with a bet made on it and a player
\* who folded to that bet, the folded chips being in the pot.
C34_Witness ==
    /\ Accepted
    /\ num_players = 3
    /\ current_street = FLOP
    /\ raise_count > 0
    /\ SumBets > 0
    /\ \E i \in Seats(num_players) : player_folded[i] /\ player_contributions[i] > 0
    /\ pot_size + SumStacks = num_players * initial_stack

----------------------------------------------------------------------------
(* The recursion of CFREngine::cfr_plus_recursive, call by call.  A thread's
   calls are a stack of frames; the node table is entered through
   node_map_mutex_, taken and released by the lock_guard of each block.  The
   runs followed are two-player runs of a fresh solver. *)

\* master_deck in the order train builds it: ranks from 2 to A, each in the
\* suits c, d, h, s.
master_deck ==
    [k \in 1 .. DECK_SIZE |->
        <<RankOrder[13 - ((k - 1) \div 4)], SuitOrder[((k - 1) % 4) + 1]>>]

\* The deck after the shuffle of an iteration: the cards that DealtHands
\* gives the two seats on top, the rest of the deck behind them.
ShuffledDeck ==
    LET hole == DealtHands[1] \o DealtHands[2]
        behind(card) == \A k \in 1 .. Len(hole) : hole[k] # card
    IN  hole \o SelectSeq(master_deck, behind)

\* What evaluate_7_card_hand gives the two hands at a showdown (lower is
\* better).
ShowdownRanks == [i \in {0, 1} |-> i + 1]

\* The place of a spec's type in the final sort.
type_order(spec) ==
    CASE spec.type = "FOLD" -> 0
      [] spec.type = "CHECK" -> 1
      [] spec.type = "CALL" -> 2
      [] spec.type \in {"BET", "RAISE"} -> 3
      [] OTHER -> 4

\* The specs in the order of the returned vector: by type, bets and raises by
\* amount, equal amounts in the order of the candidate set.
RECURSIVE final_sorted_specs(_, _)
final_sorted_specs(s, specs) ==
    IF specs = {} THEN <<>>
    ELSE LET Before(a, b) ==
                 \/ type_order(a) < type_order(b)
                 \/ /\ type_order(a) = type_order(b)
                    /\ \/ SpecAmount(s, a) < SpecAmount(s, b)
                       \/ SpecAmount(s, a) = SpecAmount(s, b) /\ a.value10 <= b.value10
             first == CHOOSE a \in specs : \A b \in specs : Before(a, b)
         IN  <<first>> \o final_sorted_specs(s, specs \ {first})

\* legal_actions_str of a call.
legal_actions_str(s) == final_sorted_specs(s, get_possible_action_specs(s))

\* A double of the traversal keeps FractionBits binary places: the result of
\* an assignment is rounded to the nearest multiple of 1 / 2^FractionBits.
FractionBits == 6

Double(x) ==
    LET unit == 2 ^ FractionBits
        whole == x[1] \div x[2]
        rest == x[1] % x[2]
    IN  Rat(whole * unit + (rest * unit + x[2] \div 2) \div x[2], unit)

\* The utility the loop gives an action it skips.
SkippedUtility == Rat(-1000000, 1)

\* A call of cfr_plus_recursive at its entry.
Frame(traversal, community_cards, reach_probabilities) ==
    [pc |-> "enter",
     current_state |-> traversal,
     community_cards |-> community_cards,
     reach_probabilities |-> reach_probabilities,
     info_set_key |-> <<>>,
     legal_actions_str |-> <<>>,
     current_strategy |-> <<>>,
     action_utilities |-> <<>>,
     node_utility |-> Zero,
     i |-> 0,
     current_card_idx |-> 0,
     expanded |-> 0]

\* The call worker_task makes for one traversing player: the root state, all
\* reach probabilities 1.0, card_idx behind the hole cards.
RootCall(root, player) ==
    [traversing_player |-> player,
     root |-> root,
     card_idx |-> 2 * root.state.num_players,
     frames |-> <<Frame(root, <<>>, [p \in Seats(root.state.num_players) |-> One])>>]

\* The cards dealt when a child enters next_street from entry_street.
num_cards_to_deal(entry_street, next_street) ==
    IF next_street = entry_street \/ next_street = SHOWDOWN THEN 0
    ELSE IF next_street = FLOP /\ entry_street = PREFLOP THEN 3
    ELSE IF next_street = TURN /\ entry_street = FLOP THEN 1
    ELSE IF next_street = RIVER /\ entry_street = TURN THEN 1
    ELSE 0

\* A caller that takes the child's value and goes on with the card index it
\* was left with.
ReturnToKeepsCards(call, value) ==
    LET depth == Len(call.frames)
        parent == call.frames[depth - 1]
        utility == RatSub(Zero, value)
    IN  [call EXCEPT
            !.frames = [k \in 1 .. (depth - 1) |->
                IF k < depth - 1 THEN call.frames[k]
                ELSE [parent EXCEPT
                         !.pc = "loop",
                         !.action_utilities[parent.i + 1] = utility,
                         !.node_utility =
                             Double(RatAdd(@, RatMul(parent.current_strategy[parent.i + 1],
                                                    utility))),
                         !.i = @ + 1]]]

\* The innermost call returns value to its caller: the caller negates it,
\* restores card_idx, adds to node_utility and goes on with the next action.
ReturnTo(call, value) ==
    LET depth == Len(call.frames)
        parent == call.frames[depth - 1]
        utility == RatSub(Zero, value)
    IN  [call EXCEPT
            !.card_idx = parent.current_card_idx,
            !.frames = [k \in 1 .. (depth - 1) |->
                IF k < depth - 1 THEN call.frames[k]
                ELSE [parent EXCEPT
                         !.pc = "loop",
                         !.action_utilities[parent.i + 1] = utility,
                         !.node_utility =
                             Double(RatAdd(@, RatMul(parent.current_strategy[parent.i + 1],
                                                    utility))),
                         !.i = @ + 1]]]

InCall(t) ==
    /\ train_call.pc = "running"
    /\ t \in DOMAIN traversals

Top(t) == traversals[t].frames[Len(traversals[t].frames)]

InCallAt(t, pc) == InCall(t) /\ Top(t).pc = pc

SetTop(t, frame) ==
    [traversals EXCEPT ![t].frames[Len(traversals[t].frames)] = frame]

\* The innermost call of thread t returns value: to its caller, or to
\* worker_task, which goes on with the next traversing player and after the
\* last one with the count of the iteration.
Returns(t, value) ==
    LET call == traversals[t]
        n == call.root.state.num_players
    IN  IF Len(call.frames) > 1
        THEN /\ traversals' = [traversals EXCEPT ![t] = ReturnTo(call, value)]
             /\ UNCHANGED workers
        ELSE IF call.traversing_player + 1 < n
        THEN /\ traversals' = [traversals EXCEPT
                                  ![t] = RootCall(call.root, call.traversing_player + 1)]
             /\ UNCHANGED workers
        ELSE /\ traversals' = [u \in DOMAIN traversals \ {t} |-> traversals[u]]
             /\ workers' = [workers EXCEPT ![t].pc = "count"]

\* An iteration of worker_task up to its first call of cfr_plus_recursive:
\* the root state of the iteration's button, the deal, traversing player 0.
StartIteration(t) ==
    /\ At(t, "loop")
    /\ workers[t].i < workers[t].iterations_for_thread
    /\ deal_ok(train_call.num_players)
    /\ LET global_iteration_approx ==
               train_call.starting_iteration
                   + t * workers[t].iterations_for_thread + workers[t].i
           button_pos == global_iteration_approx % train_call.num_players
       IN  traversals' =
               (t :> RootCall(root_state(train_call.initial_stack, button_pos), 0))
                   @@ traversals
    /\ workers' = [workers EXCEPT ![t].pc = "traverse"]
    /\ UNCHANGED <<game_vars, current_state, info_set, helper_vars, node_map,
                   total_nodes_created, completed_iterations, files, train_call,
                   node_map_mutex>>

\* Steps 1 and 2 of a call: the payoff of a terminal state, 0.0 where no
\* action is legal, otherwise the infoset key and the legal actions.
EnterCall(t) ==
    /\ InCallAt(t, "enter")
    /\ LET frame == Top(t)
           s == frame.current_state.state
       IN  IF is_terminal(s)
           THEN Returns(t, final_payoff(s, ShowdownRanks,
                                        Len(frame.community_cards) = 5,
                                        traversals[t].traversing_player))
           ELSE IF Len(legal_actions_str(s)) = 0
           THEN Returns(t, Zero)
           ELSE /\ traversals' =
                       SetTop(t, [frame EXCEPT
                                     !.pc = "lookup",
                                     !.info_set_key = info_set_key(frame.current_state),
                                     !.legal_actions_str = legal_actions_str(s)])
                /\ UNCHANGED workers
    /\ UNCHANGED <<game_vars, current_state, info_set, helper_vars, node_map,
                   total_nodes_created, completed_iterations, files, train_call,
                   node_map_mutex>>

\* std::lock_guard<std::mutex> lock(node_map_mutex_) of the lookup block, of
\* the block that copies the regrets and of the update block: the thread
\* goes on when the mutex is free.
Lock(t) ==
    /\ InCall(t)
    /\ Top(t).pc \in {"lookup", "read", "update"}
    /\ node_map_mutex = Unlocked
    /\ node_map_mutex' = t
    /\ traversals' =
           SetTop(t, [Top(t) EXCEPT
                         !.pc = CASE @ = "lookup" -> "find"
                                  [] @ = "read" -> "copy"
                                  [] @ = "update" -> "write"])
    /\ UNCHANGED <<game_vars, current_state, info_set, helper_vars, node_map,
                   total_nodes_created, completed_iterations, files, train_call,
                   workers>>

\* A lookup block that leaves without giving the mutex back.
FindNodeKeepsLock(t) ==
    /\ InCallAt(t, "find")
    /\ LET frame == Top(t)
       IN  /\ IF frame.info_set_key \in DOMAIN node_map
              THEN UNCHANGED <<node_map, total_nodes_created>>
              ELSE /\ node_map' = node_map @@
                          (frame.info_set_key :> Node(Len(frame.legal_actions_str)))
                   /\ total_nodes_created' = total_nodes_created + 1
           /\ traversals' = SetTop(t, [frame EXCEPT !.pc = "read"])
    /\ UNCHANGED node_map_mutex
    /\ UNCHANGED <<game_vars, current_state, info_set, helper_vars,
                   completed_iterations, files, train_call, workers>>

\* The lookup block: the node of the key is found, or created with one entry
\* per legal action and counted; the block ends and the mutex is free.
FindNode(t) ==
    /\ InCallAt(t, "find")
    /\ LET frame == Top(t)
       IN  /\ IF frame.info_set_key \in DOMAIN node_map
              THEN UNCHANGED <<node_map, total_nodes_created>>
              ELSE /\ node_map' = node_map @@
                          (frame.info_set_key :> Node(Len(frame.legal_actions_str)))
                   /\ total_nodes_created' = total_nodes_created + 1
           /\ traversals' = SetTop(t, [frame EXCEPT !.pc = "read"])
    /\ node_map_mutex' = Unlocked
    /\ UNCHANGED <<game_vars, current_state, info_set, helper_vars,
                   completed_iterations, files, train_call, workers>>

\* Step 3: the regrets are copied under the mutex and matched.
CopyRegrets(t) ==
    /\ InCallAt(t, "copy")
    /\ LET frame == Top(t)
           current_regrets == node_map[frame.info_set_key].regret_sum
       IN  traversals' =
               SetTop(t, [frame EXCEPT
                             !.pc = "loop",
                             !.current_strategy =
                                 [k \in DOMAIN current_regrets |->
                                     Double(get_strategy_from_regrets(current_regrets)[k])],
                             !.action_utilities =
                                 [k \in 1 .. Len(frame.legal_actions_str) |-> Zero]])
    /\ node_map_mutex' = Unlocked
    /\ UNCHANGED <<game_vars, current_state, info_set, helper_vars, node_map,
                   total_nodes_created, completed_iterations, files, train_call,
                   workers>>

\* Step 4 for the i-th legal action: the action is built and applied to a
\* copy of the state, the community cards of a new street are dealt from the
\* deck, and the call recurses into the child; an action without an amount,
\* a rejected action and a street the deck has no cards for are skipped.
Expand(t) ==
    /\ InCallAt(t, "loop")
    /\ Top(t).i < Len(Top(t).legal_actions_str)
    /\ LET call == traversals[t]
           frame == Top(t)
           s == frame.current_state.state
           current_player == s.current_player_index
           spec == frame.legal_actions_str[frame.i + 1]
           action == ToAction(s, spec)
           next == ApplyTracked(frame.current_state, action)
           num == num_cards_to_deal(s.current_street, next.state.current_street)
           cards_to_deal == SubSeq(ShuffledDeck, call.card_idx + 1, call.card_idx + num)
           next_reach_probabilities ==
               IF current_player # call.traversing_player
               THEN [frame.reach_probabilities EXCEPT
                        ![current_player] =
                            Double(RatMul(@, frame.current_strategy[frame.i + 1]))]
               ELSE frame.reach_probabilities
           skipped(utility) ==
               SetTop(t, [frame EXCEPT !.action_utilities[frame.i + 1] = utility,
                                       !.i = @ + 1])
       IN  traversals' =
               IF \/ spec.type \notin {"FOLD", "CHECK", "CALL"} /\ action.amount = -1
                  \/ next.outcome = "threw"
               THEN skipped(SkippedUtility)
               ELSE IF call.card_idx + num > DECK_SIZE
               THEN skipped(Zero)
               ELSE [traversals EXCEPT ![t] =
                       [call EXCEPT
                           !.card_idx = @ + num,
                           !.frames =
                               Append([@ EXCEPT ![Len(@)] =
                                          [frame EXCEPT !.pc = "wait",
                                                        !.current_card_idx = call.card_idx,
                                                        !.expanded = @ + 1]],
                                      Frame(next, frame.community_cards \o cards_to_deal,
                                            next_reach_probabilities))]]
    /\ UNCHANGED <<game_vars, current_state, info_set, helper_vars, node_map,
                   total_nodes_created, completed_iterations, files, train_call,
                   workers, node_map_mutex>>

\* A loop end that goes to the update block whoever is to act.
EndLoopAlwaysUpdates(t) ==
    /\ InCallAt(t, "loop")
    /\ Top(t).i = Len(Top(t).legal_actions_str)
    /\ traversals' = SetTop(t, [Top(t) EXCEPT !.pc = "update"])
    /\ UNCHANGED workers
    /\ UNCHANGED <<game_vars, current_state, info_set, helper_vars, node_map,
                   total_nodes_created, completed_iterations, files, train_call,
                   node_map_mutex>>

\* After the loop: the traversing player's call goes on to the update, any
\* other call returns node_utility.
EndLoop(t) ==
    /\ InCallAt(t, "loop")
    /\ Top(t).i = Len(Top(t).legal_actions_str)
    /\ IF Top(t).current_state.state.current_player_index = traversals[t].traversing_player
       THEN /\ traversals' = SetTop(t, [Top(t) EXCEPT !.pc = "update"])
            /\ UNCHANGED workers
       ELSE Returns(t, Top(t).node_utility)
    /\ UNCHANGED <<game_vars, current_state, info_set, helper_vars, node_map,
                   total_nodes_created, completed_iterations, files, train_call,
                   node_map_mutex>>

\* The product of the reach probabilities of the given players.
RECURSIVE reach_product(_, _)
reach_product(reach_probabilities, players) ==
    IF players = {} THEN One
    ELSE LET p == CHOOSE q \in players : TRUE
         IN  Double(RatMul(reach_probabilities[p],
                           reach_product(reach_probabilities, players \ {p})))

\* The node after the update block of step 5.
updated_node(node, frame) ==
    LET current_player == frame.current_state.state.current_player_index
        num_actions == Len(frame.legal_actions_str)
        counterfactual_reach_prob ==
            reach_product(frame.reach_probabilities,
                          DOMAIN frame.reach_probabilities \ {current_player})
        player_reach_prob == frame.reach_probabilities[current_player]
    IN  [node EXCEPT
            !.regret_sum =
                [k \in DOMAIN @ |->
                    IF k <= num_actions /\ RatLess(Epsilon, counterfactual_reach_prob)
                    THEN Double(RatAdd(@[k], RatMul(counterfactual_reach_prob,
                                                    RatSub(frame.action_utilities[k],
                                                           frame.node_utility))))
                    ELSE @[k]],
            !.strategy_sum =
                [k \in DOMAIN @ |->
                    IF k <= num_actions /\ RatLess(Epsilon, player_reach_prob)
                    THEN Double(RatAdd(@[k], RatMul(player_reach_prob,
                                                    frame.current_strategy[k])))
                    ELSE @[k]]]

\* Step 5 under the mutex: regret_sum and strategy_sum of the node.
WriteRegrets(t) ==
    /\ InCallAt(t, "write")
    /\ node_map' = [node_map EXCEPT ![Top(t).info_set_key] = updated_node(@, Top(t))]
    /\ traversals' = SetTop(t, [Top(t) EXCEPT !.pc = "visit"])
    /\ node_map_mutex' = Unlocked
    /\ UNCHANGED <<game_vars, current_state, info_set, helper_vars,
                   total_nodes_created, completed_iterations, files, train_call,
                   workers>>

\* node.visit_count++ and the return of node_utility.
VisitAndReturn(t) ==
    /\ InCallAt(t, "visit")
    /\ node_map' = [node_map EXCEPT ![Top(t).info_set_key].visit_count = @ + 1]
    /\ Returns(t, Top(t).node_utility)
    /\ UNCHANGED <<game_vars, current_state, info_set, helper_vars,
                   total_nodes_created, completed_iterations, files, train_call,
                   node_map_mutex>>

\* The lock_guard at the head of save_checkpoint, called by thread 0 for a
\* periodic checkpoint.
LockForSave(t) ==
    /\ At(t, "save")
    /\ node_map_mutex = Unlocked
    /\ node_map_mutex' = t
    /\ workers' = [workers EXCEPT ![t].pc = "saving"]
    /\ UNCHANGED <<game_vars, current_state, info_set, helper_vars, node_map,
                   total_nodes_created, completed_iterations, files, train_call,
                   traversals>>

\* The rest of save_checkpoint(save_filename + ".tmp") under the mutex, and
\* its return.
WriteCheckpoint(t) ==
    /\ At(t, "saving")
    /\ \E result \in SaveResults :
        /\ files' = save_checkpoint("save.tmp", result)
        /\ workers' = [workers EXCEPT ![t].pc = IF result = "written" THEN "rename" ELSE "loop"]
    /\ node_map_mutex' = Unlocked
    /\ UNCHANGED <<game_vars, current_state, info_set, helper_vars, node_map,
                   total_nodes_created, completed_iterations, train_call, traversals>>

\* The stacks of the runs followed, and their threads.
TraversalStacks == {2, 3}

\* train(iterations, 2, stack, 0, num_threads, save_filename, interval, ""):
\* one iteration per thread.
TrainTraversals ==
    \E stack \in TraversalStacks : \E num_threads \in {1, 2} :
    \E save_filename \in {"", "save"} :
        /\ num_threads = 2 => stack = 2
        /\ TrainStart(num_threads, 2, stack, num_threads, num_threads, save_filename,
                      IF save_filename = "" THEN 0 ELSE 1, "")

CallStep(t) ==
    \/ EnterCall(t)
    \/ Lock(t)
    \/ FindNode(t)
    \/ CopyRegrets(t)
    \/ Expand(t)
    \/ EndLoop(t)
    \/ WriteRegrets(t)
    \/ VisitAndReturn(t)

NextTraversal ==
    \/ TrainTraversals
    \/ \E t \in {0, 1} :
        \/ StartIteration(t)
        \/ CallStep(t)
        \/ CountIteration(t)
        \/ LockForSave(t)
        \/ WriteCheckpoint(t)
        \/ RenamePeriodic(t)
    \/ Return
    \/ SaveFinal
    \/ RenameFinal

SpecTraversal == InitCtor /\ [][NextTraversal]_vars

----------------------------------------------------------------------------
(* The actions a call expands *)

\* The calls in progress, as pairs of a thread and a depth.
Calls == {c \in (DOMAIN traversals) \X (1 .. 30) : c[2] <= Len(traversals[c[1]].frames)}

CallAt(c) == traversals[c[1]].frames[c[2]]

\* The player to act in the state of a call.
ActingPlayer(c) == CallAt(c).current_state.state.current_player_index

AtTraverserNode(c) == ActingPlayer(c) = traversals[c[1]].traversing_player

\* The call has entered its action loop.
InLoop(c) == CallAt(c).pc \in {"loop", "wait", "update", "write", "visit"}

\* The loop of the call has run over all its legal actions.
LoopDone(c) == InLoop(c) /\ CallAt(c).i = Len(CallAt(c).legal_actions_str)

\* C35: at every node where the player to act is not the traversing player
\* exactly one child is expanded, and at every node of the traversing player
\* all legal actions are expanded.
C35_ExternalSampling ==
    \A c \in Calls :
        InLoop(c) =>
            IF AtTraverserNode(c)
            THEN LoopDone(c) => CallAt(c).expanded = Len(CallAt(c).legal_actions_str)
            ELSE /\ CallAt(c).expanded <= 1
                 /\ LoopDone(c) => CallAt(c).expanded = 1

----------------------------------------------------------------------------
(* The writes to a node *)

\* Thread t is in the update of the node of key at a node of the traversing
\* player: in the block that writes the two sums, or at the count of the visit.
UpdatesNode(t, key, pc) ==
    /\ InCallAt(t, pc)
    /\ Top(t).info_set_key = key
    /\ AtTraverserNode(<<t, Len(traversals[t].frames)>>)

\* C36: regret_sum, strategy_sum and visit_count of a node change only when
\* the node is visited with the player to act equal to the traversing player;
\* such a visit increments visit_count by exactly 1, and a visit where another
\* player acts leaves the three fields unchanged.
C36_NodeChangesAtTraverserVisits ==
    [][\A key \in DOMAIN node_map \cap DOMAIN node_map' :
          node_map'[key] # node_map[key] =>
              \E t \in DOMAIN traversals :
                  \/ /\ UpdatesNode(t, key, "write")
                     /\ node_map'[key].visit_count = node_map[key].visit_count
                  \/ /\ UpdatesNode(t, key, "visit")
                     /\ node_map'[key] =
                            [node_map[key] EXCEPT !.visit_count = @ + 1]]_vars

\* A call where another player than the traversing one acts has finished its
\* loop over a node that earlier visits have updated.
C36_Witness ==
    \E c \in Calls :
        /\ LoopDone(c)
        /\ ~AtTraverserNode(c)
        /\ CallAt(c).info_set_key \in DOMAIN node_map
        /\ node_map[CallAt(c).info_set_key].visit_count > 1
        /\ \E k \in DOMAIN node_map[CallAt(c).info_set_key].regret_sum :
               node_map[CallAt(c).info_set_key].regret_sum[k] # Zero

----------------------------------------------------------------------------
(* The community cards of a traversal *)

\* The deck positions of the hole cards of the call of thread t.
HoleCards(t) == 2 * traversals[t].root.state.num_players

\* The community cards a state on the given street has.
CardsOnStreet(street) ==
    CASE street = PREFLOP -> {0}
      [] street = FLOP -> {3}
      [] street = TURN -> {4}
      [] street = RIVER -> {5}
      [] OTHER -> 0 .. 5

\* C37: card_idx is restored after each child call, so that the community
\* cards of every visited state are the deck positions directly behind the
\* hole cards (the same for all siblings that reach a street): 0, 3, 4 or 5
\* of them on Preflop, Flop, Turn and River, none of them a hole card, and the
\* innermost call has card_idx behind its own community cards.
C37_CardsRestoredAndDealt ==
    /\ \A c \in Calls :
          LET t == c[1]
              cards == CallAt(c).community_cards
          IN  /\ Len(cards) \in CardsOnStreet(CallAt(c).current_state.state.current_street)
              /\ cards = SubSeq(ShuffledDeck, HoleCards(t) + 1, HoleCards(t) + Len(cards))
              /\ \A k \in 1 .. Len(cards) : \A h \in 1 .. HoleCards(t) :
                     cards[k] # ShuffledDeck[h]
    /\ \A t \in DOMAIN traversals :
          traversals[t].card_idx =
              HoleCards(t) + Len(traversals[t].frames[Len(traversals[t].frames)].community_cards)

\* A call on the turn holds four community cards: its caller took back an
\* earlier child, restored card_idx and dealt the turn card for this one.
C37_Witness ==
    \E c \in Calls :
        /\ c[2] > 1
        /\ CallAt(c).current_state.state.current_street = TURN
        /\ Len(CallAt(c).community_cards) = 4
        /\ CallAt(<<c[1], c[2] - 1>>).current_state.state.current_street = FLOP
        /\ CallAt(<<c[1], c[2] - 1>>).i > 0
        /\ CallAt(<<c[1], c[2] - 1>>).expanded > 1
        /\ traversals[c[1]].card_idx = HoleCards(c[1]) + 4

----------------------------------------------------------------------------
(* The mutex of the node table *)

\* Thread t is inside one of the blocks that hold node_map_mutex_: the lookup,
\* the copy of the regrets or the update of its innermost call, or the body
\* of save_checkpoint.
InLockedBlock(t) ==
    \/ t \in DOMAIN traversals /\ Top(t).pc \in {"find", "copy", "write"}
    \/ t \in DOMAIN workers /\ workers[t].pc = "saving"

\* Thread t is about to take node_map_mutex_.
Acquiring(t) ==
    \/ t \in DOMAIN traversals /\ Top(t).pc \in {"lookup", "read", "update"}
    \/ t \in DOMAIN workers /\ workers[t].pc = "save"

\* Thread t is entering a child call, or one of its calls waits for a child.
Recursing(t) ==
    /\ t \in DOMAIN traversals
    /\ \/ Top(t).pc = "enter"
       \/ \E k \in 1 .. Len(traversals[t].frames) : traversals[t].frames[k].pc = "wait"

\* C38: no worker holds the mutex of the node table while it recurses into a
\* child or calls save_checkpoint; a thread that is about to take the mutex
\* never holds it already; the holder is always inside the block that took
\* the mutex, which ends without waiting for anything, so no set of threads
\* deadlocks.
C38_LockNeverHeldAcrossCalls ==
    /\ node_map_mutex \in {Unlocked} \cup DOMAIN workers
    /\ \A t \in DOMAIN workers :
          /\ node_map_mutex = t => InLockedBlock(t) /\ ~Acquiring(t)
          /\ Recursing(t) /\ Top(t).pc # "find" /\ Top(t).pc # "copy" /\ Top(t).pc # "write"
                => node_map_mutex # t
          /\ InLockedBlock(t) => node_map_mutex = t

\* One thread is inside the update block with the mutex while the other one
\* is entering a child call.
C38_Witness ==
    \E t \in DOMAIN traversals : \E u \in DOMAIN traversals :
        /\ t # u
        /\ node_map_mutex = t
        /\ Top(t).pc = "write"
        /\ Recursing(u)
        /\ Len(traversals[u].frames) > 1

----------------------------------------------------------------------------
(* The size of the last raise *)

\* Nobody has bet or raised on the current street: no BET or RAISE was made
\* before the flop, or no chips are in front of any seat after it.
NoBetOnStreet ==
    IF current_street = PREFLOP THEN raise_count = 0
    ELSE \A i \in Seats(num_players) : bets_this_round[i] = 0

\* C39: in every reachable non-terminal state, on every street,
\* last_raise_size is at least the big blind (2) as long as no voluntary bet
\* or raise has been made on the current street.
C39_LastRaiseAtLeastBigBlind ==
    (NoThrow /\ ~is_terminal(State) /\ NoBetOnStreet) =>
        last_raise_size >= BIG_BLIND_AMOUNT

----------------------------------------------------------------------------
(* The bets of a folded player *)

\* C40: once a player has folded, that player's bets_this_round value never
\* changes again, whatever the other players do and whatever street
\* transitions follow.
C40_FoldedBetFrozen ==
    [][\A i \in Seats(num_players) :
          player_folded[i] => bets_this_round'[i] = bets_this_round[i]]_vars

====
